---- MODULE Spec2Model ----
(***************************************************************************)
(* A model of konscodes/client-code: the Russian numeral speller, the      *)
(* declension selector, the money / workday formatters, the order-number   *)
(* extraction and the document-layout decisions of api/generate.py (and    *)
(* of the near-duplicate python-service/docx_generator.py).                *)
(*                                                                         *)
(* Strings.  TLA+ strings hold ASCII only, so every Russian word of the    *)
(* source's tables is written in a fixed Latin transliteration             *)
(* ('один' -> "odin", 'тысяча' -> "tysyacha", ...).  The transliteration   *)
(* is injective on the words of the tables, keeps every space of the       *)
(* original and puts no space where the original has none, so equality,    *)
(* concatenation, joining and the position of spaces are those of the      *)
(* source's strings.                                                       *)
(*                                                                         *)
(* Numbers.  A Python float is modelled as a record [units, frac, den],    *)
(* the exact value units + frac / den with 0 <= frac < den (1.5 is         *)
(* [units |-> 1, frac |-> 500, den |-> 1000], -0.25 is                     *)
(* [units |-> -1, frac |-> 750, den |-> 1000]).  The model hands in only   *)
(* values on which the float arithmetic of the source decides a rounding   *)
(* as the exact arithmetic does.                                           *)
(***************************************************************************)
EXTENDS Integers, Sequences, FiniteSets, TLC

VARIABLES
    pc,         \* the operation that has run ("input" before any has)
    num,        \* the integer handed to the numeral engine
    feminine,   \* the speller's gender parameter
    forms,      \* the word-form table handed to get_declension
    amount,     \* the money amount, a float record
    order_id,   \* the order identifier handed to extract_order_number
    data,       \* the request payload handed to generate_document
    doc_type,   \* the document type handed to generate_document
    today,      \* the date datetime.now() gives while the document is built
    doc,        \* the document built so far: the rows and paragraphs, in order
    width_in,   \* the available width handed to calculate_column_widths, in millimetres
    date_in,    \* the value handed to format_date_full_russian
    request,    \* the POST being handled: its headers and its body
    environ,    \* os.environ: the provider configuration and VERCEL_ENV
    answer,     \* what the auth provider answered to the verification call
    user,       \* what verify_supabase_token returned
    responses,  \* the responses sent so far, in order
    log,        \* the processing steps do_POST has made, in order
    ALLOWED_ORIGINS, \* the module-level list of allowed origins, filled at load
    served,     \* the documents generated since load: input and content, in order
    out         \* the value the operation returned

\* the inputs of the numeral engine, and those of the order-number extraction
numeralVars == <<num, feminine, forms, amount>>
orderVars == <<order_id>>
documentVars == <<data, doc_type, today, doc>>
formatVars == <<width_in, date_in>>
handlerVars == <<request, environ, answer, user, responses, log, ALLOWED_ORIGINS, served>>

vars == <<pc, out, numeralVars, orderVars, documentVars, formatVars, handlerVars>>

(***************************************************************************)
(* Bounds of the model                                                     *)
(***************************************************************************)
\* every integer 0..MaxSmall is spelled
MaxSmall == 1100
\* thousands counts 1..MaxThousands are spelled with each tail of Tails
MaxThousands == 25
\* millions counts 1..MaxMillions are spelled
MaxMillions == 25
\* the negative integers -MaxNegative..-1 are handed in as well
MaxNegative == 125
\* every order identifier over IdChars of at most MaxIdLen characters is extracted
MaxIdLen == 4
\* a payload carries at most MaxJobs line items
MaxJobs == 2
\* every available width of 0..MaxWidth millimetres is laid out
MaxWidth == 300
\* the documents one process generates before the model stops following it
MaxServed == 3

(***************************************************************************)
(* Python built-ins used by the source                                     *)
(***************************************************************************)
\* list[i] of a Python list: 0-based indexing
At(list, i) == list[i + 1]

\* abs(x)
Abs(x) == IF x < 0 THEN -x ELSE x

\* the i-th character of a string (1-based), as a string of length 1
Char(s, i) == SubSeq(s, i, i)

\* ' '.join(parts)
RECURSIVE Join(_)
Join(parts) ==
    IF Len(parts) = 0 THEN ""
    ELSE IF Len(parts) = 1 THEN parts[1]
    ELSE parts[1] \o " " \o Join(Tail(parts))

LowerLetters == "abcdefghijklmnopqrstuvwxyz"
UpperLetters == "ABCDEFGHIJKLMNOPQRSTUVWXYZ"

\* str.upper() / str.lower() of one character
UpperChar(c) ==
    IF \E i \in 1..Len(LowerLetters) : Char(LowerLetters, i) = c
    THEN LET i == CHOOSE j \in 1..Len(LowerLetters) : Char(LowerLetters, j) = c
         IN Char(UpperLetters, i)
    ELSE c

LowerChar(c) ==
    IF \E i \in 1..Len(UpperLetters) : Char(UpperLetters, i) = c
    THEN LET i == CHOOSE j \in 1..Len(UpperLetters) : Char(UpperLetters, j) = c
         IN Char(LowerLetters, i)
    ELSE c

RECURSIVE LowerStr(_)
LowerStr(s) ==
    IF Len(s) = 0 THEN ""
    ELSE LowerChar(Char(s, 1)) \o LowerStr(SubSeq(s, 2, Len(s)))

\* str.capitalize(): first character upper-cased, the rest lower-cased
Capitalize(s) ==
    IF Len(s) = 0 THEN ""
    ELSE UpperChar(Char(s, 1)) \o LowerStr(SubSeq(s, 2, Len(s)))

\* the float units + milli / 1000
Amount(units, milli) == [units |-> units, frac |-> milli, den |-> 1000]

\* int(round(x)): Python 3 rounds a tie to the even neighbour
RoundToInt(a) ==
    IF 2 * a.frac < a.den THEN a.units
    ELSE IF 2 * a.frac > a.den THEN a.units + 1
    ELSE IF a.units % 2 = 0 THEN a.units ELSE a.units + 1

(***************************************************************************)
(* The word tables (api/generate.py lines 17-26)                           *)
(***************************************************************************)
ONES == <<"", "odin", "dva", "tri", "chetyre", "pyat", "shest", "sem", "vosem", "devyat">>
ONES_FEM == <<"", "odna", "dve", "tri", "chetyre", "pyat", "shest", "sem", "vosem", "devyat">>
TENS == <<"", "", "dvadtsat", "tridtsat", "sorok", "pyatdesyat", "shestdesyat", "semdesyat", "vosemdesyat", "devyanosto">>
TEENS == <<"desyat", "odinnadtsat", "dvenadtsat", "trinadtsat", "chetyrnadtsat", "pyatnadtsat", "shestnadtsat", "semnadtsat", "vosemnadtsat", "devyatnadtsat">>
HUNDREDS == <<"", "sto", "dvesti", "trista", "chetyresta", "pyatsot", "shestsot", "semsot", "vosemsot", "devyatsot">>
THOUSANDS == <<"", "tysyacha", "tysyachi", "tysyach">>
MILLIONS == <<"", "million", "milliona", "millionov">>
RUBLES == <<"rubl", "rublya", "rublej">>
KOPECKS == <<"kopejka", "kopejki", "kopeek">>
WORKDAYS == <<"rabochij den", "rabochih dnya", "rabochih dnej">>

\* 'ноль'
ZeroWord == "nol"

(***************************************************************************)
(* get_declension                                                          *)
(***************************************************************************)
\* get_declension with the last-digit checks made before the teens check
get_declension_digitFirst(n, table) ==
    LET n100 == Abs(n) % 100
        num1 == n100 % 10
    IN  IF num1 > 1 /\ num1 < 5 THEN At(table, 1)
        ELSE IF num1 = 1 THEN At(table, 0)
        ELSE IF n100 > 10 /\ n100 < 20 THEN At(table, 2)
        ELSE At(table, 2)

get_declension(n, table) ==
    LET n100 == Abs(n) % 100
        num1 == n100 % 10
    IN  IF n100 > 10 /\ n100 < 20 THEN At(table, 2)
        ELSE IF num1 > 1 /\ num1 < 5 THEN At(table, 1)
        ELSE IF num1 = 1 THEN At(table, 0)
        ELSE At(table, 2)

(***************************************************************************)
(* spell_number_russian: the bands, each a step on the pair                *)
(* (result, num) of the function's two locals                              *)
(***************************************************************************)
RECURSIVE spell_number_russian(_, _)

MillionsBand(s) ==
    IF s.num >= 1000000
    THEN LET millions == s.num \div 1000000
         IN  [result |-> s.result \o <<spell_number_russian(millions, FALSE),
                                       get_declension(millions, MILLIONS)>>,
              num |-> s.num % 1000000]
    ELSE s

ThousandsBand(s) ==
    IF s.num >= 1000
    THEN LET thousands == s.num \div 1000
             count == IF thousands = 1 THEN "odna"
                      ELSE IF thousands = 2 THEN "dve"
                      ELSE spell_number_russian(thousands, TRUE)
         IN  [result |-> s.result \o <<count, get_declension(thousands, THOUSANDS)>>,
              num |-> s.num % 1000]
    ELSE s

HundredsBand(s) ==
    IF s.num >= 100
    THEN [result |-> Append(s.result, At(HUNDREDS, s.num \div 100)),
          num |-> s.num % 100]
    ELSE s

TensBand(s) ==
    IF s.num >= 20
    THEN [result |-> Append(s.result, At(TENS, s.num \div 10)),
          num |-> s.num % 10]
    ELSE s

TeensBand(s) ==
    IF s.num >= 10
    THEN [result |-> Append(s.result, At(TEENS, s.num - 10)), num |-> 0]
    ELSE s

\* the ones band reading the masculine table whatever the gender
OnesBand_ignoreGender(s, fem) ==
    IF s.num > 0
    THEN [result |-> Append(s.result, At(ONES, s.num)), num |-> s.num]
    ELSE s

OnesBand(s, fem) ==
    IF s.num > 0
    THEN [result |-> Append(s.result, IF fem THEN At(ONES_FEM, s.num) ELSE At(ONES, s.num)),
          num |-> s.num]
    ELSE s

\* the recursive calls of spell_number_russian made without the >= guards
RecursiveCalls_unguarded(n) ==
    IF n = 0 THEN {}
    ELSE {[num |-> n \div 1000000, feminine |-> FALSE]}
         \cup (IF (n % 1000000) \div 1000 \notin {1, 2}
               THEN {[num |-> (n % 1000000) \div 1000, feminine |-> TRUE]}
               ELSE {})

\* the calls spell_number_russian(n, ...) makes to itself, with their arguments:
\* one for the millions count, one for a thousands count that is not 1 or 2
RecursiveCalls(n) ==
    IF n = 0 THEN {}
    ELSE LET rest == IF n >= 1000000 THEN n % 1000000 ELSE n
             thousands == rest \div 1000
         IN  (IF n >= 1000000 THEN {[num |-> n \div 1000000, feminine |-> FALSE]} ELSE {})
             \cup (IF rest >= 1000 /\ thousands \notin {1, 2}
                   THEN {[num |-> thousands, feminine |-> TRUE]}
                   ELSE {})

\* spell_number_russian without the early return for 0
spell_number_russian_noZero(n, fem) ==
    Join(OnesBand(TeensBand(TensBand(HundredsBand(ThousandsBand(MillionsBand(
             [result |-> <<>>, num |-> n]))))), fem).result)

spell_number_russian(n, fem) ==
    IF n = 0 THEN ZeroWord
    ELSE Join(OnesBand(TeensBand(TensBand(HundredsBand(ThousandsBand(MillionsBand(
                  [result |-> <<>>, num |-> n]))))), fem).result)

(***************************************************************************)
(* spell_money_russian (api: whole rubles) and spell_workdays_russian      *)
(***************************************************************************)
\* spell_money_russian truncating the amount (int(amount)) instead of rounding it
spell_money_russian_truncate(a) ==
    LET rubles == a.units
        rubles_text == spell_number_russian(rubles, FALSE)
        rubles_form == get_declension(rubles, RUBLES)
    IN  Capitalize(rubles_text) \o " " \o rubles_form

spell_money_russian(a) ==
    LET rubles == RoundToInt(a)
        rubles_text == spell_number_russian(rubles, FALSE)
        rubles_form == get_declension(rubles, RUBLES)
    IN  Capitalize(rubles_text) \o " " \o rubles_form

\* int(x) of a float: the fraction is cut off, towards zero
TruncToInt(a) == IF a.units < 0 /\ a.frac # 0 THEN a.units + 1 ELSE a.units

\* spell_money_russian of python-service: the rubles are the amount cut to an
\* integer, the kopecks the rest times 100, rounded
spell_money_russian_fractional(a) ==
    LET rubles == TruncToInt(a)
        rest == [units |-> a.units - rubles, frac |-> a.frac, den |-> a.den]
        kopecks == RoundToInt([units |-> rest.units * 100 + (rest.frac * 100) \div rest.den,
                               frac |-> (rest.frac * 100) % rest.den, den |-> rest.den])
        rubles_text == spell_number_russian(rubles, FALSE)
        rubles_form == get_declension(rubles, RUBLES)
        result == Capitalize(rubles_text) \o " " \o rubles_form
    IN  IF kopecks > 0
        THEN result \o " " \o spell_number_russian(kopecks, TRUE) \o " "
                    \o get_declension(kopecks, KOPECKS)
        ELSE result \o " 00 kopeek"

\* spell_workdays_russian spelling the count in the feminine gender
spell_workdays_russian_feminine(days) ==
    LET days_text == spell_number_russian(days, TRUE)
        days_form == get_declension(days, WORKDAYS)
    IN  Capitalize(days_text) \o " " \o days_form

spell_workdays_russian(days) ==
    LET days_text == spell_number_russian(days, FALSE)
        days_form == get_declension(days, WORKDAYS)
    IN  Capitalize(days_text) \o " " \o days_form

(***************************************************************************)
(* extract_order_number                                                    *)
(***************************************************************************)
Digits == "0123456789"

IsDigit(c) == \E i \in 1..Len(Digits) : Char(Digits, i) = c

\* re.sub(r'\D', '', s): s without its non-digit characters
RECURSIVE DigitsOnly(_)
DigitsOnly(s) ==
    IF Len(s) = 0 THEN ""
    ELSE (IF IsDigit(Char(s, 1)) THEN Char(s, 1) ELSE "") \o DigitsOnly(SubSeq(s, 2, Len(s)))

\* '-' in s
HasHyphen(s) == \E i \in 1..Len(s) : Char(s, i) = "-"

\* s.split('-'), the list of the parts between the hyphens
RECURSIVE SplitHyphen(_)
SplitHyphen(s) ==
    IF ~HasHyphen(s) THEN <<s>>
    ELSE LET i == CHOOSE j \in 1..Len(s) :
                      Char(s, j) = "-" /\ \A k \in 1..(j - 1) : Char(s, k) # "-"
         IN  <<SubSeq(s, 1, i - 1)>> \o SplitHyphen(SubSeq(s, i + 1, Len(s)))

\* extract_order_number taking the part before the first hyphen
extract_order_number_firstPart(id) ==
    IF id = "" THEN ""
    ELSE LET parts == SplitHyphen(id)
             first_digits == DigitsOnly(parts[1])
             all_digits == DigitsOnly(id)
         IN  IF HasHyphen(id) /\ first_digits # "" THEN first_digits
             ELSE IF all_digits # "" THEN all_digits
             ELSE id

extract_order_number(id) ==
    IF id = "" THEN ""
    ELSE LET parts == SplitHyphen(id)
             last_part == parts[Len(parts)]
             last_digits == DigitsOnly(last_part)
             all_digits == DigitsOnly(id)
         IN  IF HasHyphen(id) /\ last_digits # "" THEN last_digits
             ELSE IF all_digits # "" THEN all_digits
             ELSE id

(***************************************************************************)
(* Numbers and their texts: str(int), float(str), float arithmetic         *)
(***************************************************************************)
\* the decimal digit d (0..9) as a character
DigitChar(d) == Char(Digits, d + 1)

\* the value of a digit character
DigitValue(c) == (CHOOSE i \in 1..Len(Digits) : Char(Digits, i) = c) - 1

\* str(n) of a non-negative int
RECURSIVE NatToStr(_)
NatToStr(n) == IF n < 10 THEN DigitChar(n) ELSE NatToStr(n \div 10) \o DigitChar(n % 10)

\* str(n) of an int
IntToStr(n) == IF n < 0 THEN "-" \o NatToStr(-n) ELSE NatToStr(n)

\* a non-empty string of decimal digits
IsDigits(s) == Len(s) > 0 /\ \A i \in 1..Len(s) : IsDigit(Char(s, i))

\* int(s) of a string of decimal digits
RECURSIVE ParseInt(_)
ParseInt(s) ==
    IF Len(s) = 0 THEN 0
    ELSE ParseInt(SubSeq(s, 1, Len(s) - 1)) * 10 + DigitValue(Char(s, Len(s)))

RECURSIVE Pow10(_)
Pow10(k) == IF k = 0 THEN 1 ELSE 10 * Pow10(k - 1)

\* the position of the first '.' of s, 0 when it has none
DotAt(s) ==
    IF \E i \in 1..Len(s) : Char(s, i) = "."
    THEN CHOOSE i \in 1..Len(s) : Char(s, i) = "." /\ \A j \in 1..(i - 1) : Char(s, j) # "."
    ELSE 0

\* the float -x
NegFloat(x) ==
    IF x.frac = 0 THEN [units |-> -x.units, frac |-> 0, den |-> x.den]
    ELSE [units |-> -x.units - 1, frac |-> x.den - x.frac, den |-> x.den]

\* float(s) returns a number: s is an optional '-', then digits with at most one '.'
\* among them (of the texts the model hands in, the others make float raise ValueError)
IsFloatText(s) ==
    LET negative == Len(s) > 0 /\ Char(s, 1) = "-"
        body == IF negative THEN SubSeq(s, 2, Len(s)) ELSE s
        dot == DotAt(body)
        digits == IF dot = 0 THEN body
                  ELSE SubSeq(body, 1, dot - 1) \o SubSeq(body, dot + 1, Len(body))
    IN  IsDigits(digits)

\* float(s) of a string made of an optional '-', digits, and optionally '.' and digits
ParseFloat(s) ==
    LET negative == Len(s) > 0 /\ Char(s, 1) = "-"
        body == IF negative THEN SubSeq(s, 2, Len(s)) ELSE s
        dot == DotAt(body)
        whole == IF dot = 0 THEN body ELSE SubSeq(body, 1, dot - 1)
        decimals == IF dot = 0 THEN "" ELSE SubSeq(body, dot + 1, Len(body))
        x == [units |-> ParseInt(whole), frac |-> ParseInt(decimals),
              den |-> Pow10(Len(decimals))]
    IN  IF negative THEN NegFloat(x) ELSE x

\* x > 0 of a float
IsPositive(x) == x.units > 0 \/ (x.units = 0 /\ x.frac > 0)

\* x + y of two floats
AddFloat(x, y) ==
    LET d == x.den * y.den
        f == x.frac * y.den + y.frac * x.den
    IN  [units |-> x.units + y.units + (f \div d), frac |-> f % d, den |-> d]

\* x / y of two floats, y > 0
DivFloat(x, y) ==
    LET n == (x.units * x.den + x.frac) * y.den
        d == x.den * (y.units * y.den + y.frac)
    IN  [units |-> n \div d, frac |-> n % d, den |-> d]

\* sum(...) of a list of floats
RECURSIVE SumFloats(_)
SumFloats(xs) ==
    IF Len(xs) = 0 THEN [units |-> 0, frac |-> 0, den |-> 1]
    ELSE AddFloat(SumFloats(SubSeq(xs, 1, Len(xs) - 1)), xs[Len(xs)])

\* n as at least width digits, zero-padded
RECURSIVE ZeroPad(_, _)
ZeroPad(text, width) == IF Len(text) >= width THEN text ELSE ZeroPad("0" \o text, width)

(***************************************************************************)
(* format_number_russian (api: whole numbers, a space every three digits)  *)
(***************************************************************************)
\* the loop over reversed(str(num_int)): i counts the characters taken
RECURSIVE GroupFromRight(_, _, _)
GroupFromRight(text, i, integer_formatted) ==
    IF i = Len(text) THEN integer_formatted
    ELSE LET digit == Char(text, Len(text) - i)
             spaced == IF i > 0 /\ i % 3 = 0 THEN " " \o integer_formatted
                       ELSE integer_formatted
         IN  GroupFromRight(text, i + 1, digit \o spaced)

format_number_russian(x) == GroupFromRight(IntToStr(RoundToInt(x)), 0, "")

(***************************************************************************)
(* format_number_russian of python-service/docx_generator.py: two          *)
(* decimals after a comma                                                  *)
(***************************************************************************)
\* f"{num:.2f}": the sign, the whole part, '.', the hundredths rounded half to even
FormatTwoDecimals(x) ==
    LET negative == x.units < 0
        whole == IF ~negative THEN x.units
                 ELSE IF x.frac = 0 THEN -x.units ELSE -x.units - 1
        part == IF negative /\ x.frac # 0 THEN x.den - x.frac ELSE x.frac
        low == (part * 100) \div x.den
        rest == (part * 100) % x.den
        hundredths == IF 2 * rest < x.den THEN low
                      ELSE IF 2 * rest > x.den THEN low + 1
                      ELSE IF low % 2 = 0 THEN low ELSE low + 1
        carried == IF hundredths = 100 THEN whole + 1 ELSE whole
    IN  (IF negative THEN "-" ELSE "") \o NatToStr(carried) \o "."
        \o ZeroPad(NatToStr(hundredths % 100), 2)

format_number_russian_decimal(x) ==
    LET num_str == FormatTwoDecimals(x)
        dot == DotAt(num_str)
        integer_part == SubSeq(num_str, 1, dot - 1)
        decimal_part == SubSeq(num_str, dot + 1, Len(num_str))
    IN  GroupFromRight(integer_part, 0, "") \o "," \o decimal_part

(***************************************************************************)
(* format_date_full_russian                                                *)
(***************************************************************************)
MONTHS_RU == <<"", "yanvarya", "fevralya", "marta", "aprelya", "maya", "iyunya", "iyulya", "avgusta", "sentyabrya", "oktyabrya", "noyabrya", "dekabrya">>

\* the month abbreviations strptime's %b accepts (in any letter case)
MonthAbbreviations == <<"jan", "feb", "mar", "apr", "may", "jun", "jul", "aug", "sep", "oct", "nov", "dec">>

\* date.strftime('%Y-%m-%d')
Strftime(date) ==
    ZeroPad(NatToStr(date.year), 4) \o "-" \o ZeroPad(NatToStr(date.month), 2)
    \o "-" \o ZeroPad(NatToStr(date.day), 2)

IsLeapYear(y) == (y % 4 = 0 /\ y % 100 # 0) \/ y % 400 = 0

DaysInMonth(y, m) ==
    IF m = 2 THEN (IF IsLeapYear(y) THEN 29 ELSE 28)
    ELSE IF m \in {4, 6, 9, 11} THEN 30 ELSE 31

\* the datetime of (year, month, day) texts, or a failure when strptime
\* or the datetime constructor would raise
MakeDate(yearText, monthText, dayText) ==
    IF /\ Len(yearText) = 4 /\ IsDigits(yearText)
       /\ Len(monthText) \in {1, 2} /\ IsDigits(monthText)
       /\ Len(dayText) \in {1, 2} /\ IsDigits(dayText)
    THEN LET y == ParseInt(yearText)
             m == ParseInt(monthText)
             d == ParseInt(dayText)
         IN  IF y >= 1 /\ m \in 1..12 /\ d >= 1 /\ d <= DaysInMonth(y, m)
             THEN [ok |-> TRUE, year |-> y, month |-> m, day |-> d]
             ELSE [ok |-> FALSE, year |-> 0, month |-> 0, day |-> 0]
    ELSE [ok |-> FALSE, year |-> 0, month |-> 0, day |-> 0]

\* the positions of character c in s
PositionsOf(s, c) == {i \in 1..Len(s) : Char(s, i) = c}

\* datetime.strptime(s, '%Y-%m-%d')
StrptimeYmd(s) ==
    LET hyphens == PositionsOf(s, "-")
    IN  IF Cardinality(hyphens) # 2
        THEN [ok |-> FALSE, year |-> 0, month |-> 0, day |-> 0]
        ELSE LET h1 == CHOOSE i \in hyphens : \A j \in hyphens : i <= j
                 h2 == CHOOSE i \in hyphens : \A j \in hyphens : j <= i
             IN  MakeDate(SubSeq(s, 1, h1 - 1), SubSeq(s, h1 + 1, h2 - 1),
                          SubSeq(s, h2 + 1, Len(s)))

\* datetime.strptime(s, '%b %d, %Y') on a text with single spaces
StrptimeBdY(s) ==
    LET spaces == PositionsOf(s, " ")
        commas == PositionsOf(s, ",")
    IN  IF Cardinality(spaces) # 2 \/ Cardinality(commas) # 1
        THEN [ok |-> FALSE, year |-> 0, month |-> 0, day |-> 0]
        ELSE LET s1 == CHOOSE i \in spaces : \A j \in spaces : i <= j
                 s2 == CHOOSE i \in spaces : \A j \in spaces : j <= i
                 comma == CHOOSE i \in commas : TRUE
                 abbreviation == LowerStr(SubSeq(s, 1, s1 - 1))
                 months == {m \in 1..12 : MonthAbbreviations[m] = abbreviation}
             IN  IF comma # s2 - 1 \/ months = {}
                 THEN [ok |-> FALSE, year |-> 0, month |-> 0, day |-> 0]
                 ELSE MakeDate(SubSeq(s, s2 + 1, Len(s)),
                               NatToStr(CHOOSE m \in months : TRUE),
                               SubSeq(s, s1 + 1, comma - 1))

\* format_date_full_russian reading MONTHS_RU one entry too early
format_date_full_russian_monthBefore(date_str) ==
    LET dt == IF PositionsOf(date_str, " ") # {} THEN StrptimeBdY(date_str)
              ELSE StrptimeYmd(date_str)
    IN  IF dt.ok
        THEN NatToStr(dt.day) \o " " \o At(MONTHS_RU, dt.month - 1) \o " "
             \o NatToStr(dt.year) \o " g."
        ELSE date_str

format_date_full_russian(date_str) ==
    LET dt == IF PositionsOf(date_str, " ") # {} THEN StrptimeBdY(date_str)
              ELSE StrptimeYmd(date_str)
    IN  IF dt.ok
        THEN NatToStr(dt.day) \o " " \o At(MONTHS_RU, dt.month) \o " "
             \o NatToStr(dt.year) \o " g."
        ELSE date_str

(***************************************************************************)
(* The payload and the document                                            *)
(*                                                                         *)
(* A payload field that the source reads with a default (d.get(k, v)) is   *)
(* <<>> when the key is missing and <<value>> when it is present; a field  *)
(* the source only tests for truth (d.get(k)) is a string, "" when it is   *)
(* missing or empty.  The document is the sequence of the table rows and   *)
(* paragraphs added to it, each with the section that added it, its kind   *)
(* and the texts of its cells or runs.                                     *)
(***************************************************************************)
\* d.get(key, default)
Get(field, default) == IF field = <<>> THEN default ELSE field[1]

\* locale and locale.startswith('ru')
IsRussian(locale) == Len(locale) >= 2 /\ SubSeq(locale, 1, 2) = "ru"

\* doc.add_paragraph() with the texts of its runs
Paragraph(section, kind, runs) == [section |-> section, kind |-> kind, cells |-> runs]

\* a table row with the texts of its cells
TableRow(section, kind, cells) == [section |-> section, kind |-> kind, cells |-> cells]

\* doc.add_paragraph() without text
Blank(section) == Paragraph(section, "blank", <<"">>)

\* ', '.join(parts)
RECURSIVE JoinComma(_)
JoinComma(parts) ==
    IF Len(parts) = 0 THEN ""
    ELSE IF Len(parts) = 1 THEN parts[1]
    ELSE parts[1] \o ", " \o JoinComma(Tail(parts))

(***************************************************************************)
(* add_company_header                                                      *)
(***************************************************************************)
add_company_header(d, company_data, locale) ==
    LET sec == "company_header"
        line1 == <<Paragraph(sec, "legal_form", <<"OBSHCHESTVO S OGRANICHENNOJ OTVETSTVENNOSTYU">>)>>
        line2 == <<Paragraph(sec, "company_name", <<"<<" \o company_data.name \o ">>">>)>>
        line3 == IF company_data.address # ""
                 THEN <<Paragraph(sec, "address", <<company_data.address>>)>>
                 ELSE <<>>
        bank_parts ==
            (IF company_data.bankName # "" THEN <<company_data.bankName>> ELSE <<>>)
            \o (IF company_data.bankAccount # ""
                THEN <<"r/s " \o company_data.bankAccount>> ELSE <<>>)
            \o (IF company_data.correspondentAccount # ""
                THEN <<"k/s " \o company_data.correspondentAccount>> ELSE <<>>)
            \o (IF company_data.bankBik # "" THEN <<"BIK " \o company_data.bankBik>> ELSE <<>>)
        line4 == IF IsRussian(locale) /\ bank_parts # <<>>
                 THEN <<Paragraph(sec, "bank", <<JoinComma(bank_parts)>>)>>
                 ELSE <<>>
        company_parts ==
            (IF company_data.inn # "" THEN <<"INN " \o company_data.inn>> ELSE <<>>)
            \o (IF company_data.kpp # "" THEN <<"KPP " \o company_data.kpp>> ELSE <<>>)
        line5 == IF IsRussian(locale) /\ company_parts # <<>>
                 THEN <<Paragraph(sec, "inn_kpp", <<JoinComma(company_parts)>>)>>
                 ELSE <<>>
    IN  d \o line1 \o line2 \o line3 \o line4 \o line5 \o <<Blank(sec)>>

(***************************************************************************)
(* add_document_header                                                     *)
(***************************************************************************)
\* the label of the document-number line with the two types of
\* python-service/docx_generator.py
DocLabel_twoTypes(type) ==
    IF type = "invoice" THEN "Smeta No" ELSE "KP No"

\* the label of the document-number line
DocLabel(type) ==
    IF type = "invoice" THEN "Smeta No"
    ELSE IF type = "specification" THEN "Spetsifikatsiya No"
    ELSE "KP No"

add_document_header(d, order_data, client_data, type, locale, current_date) ==
    LET sec == "document_header"
        doc_label == DocLabel(type)
        doc_number == extract_order_number(Get(order_data.id, ""))
        date_formatted == IF IsRussian(locale)
                          THEN format_date_full_russian(Strftime(current_date))
                          ELSE Strftime(current_date)
        client_name == IF client_data.company # "" THEN client_data.company
                       ELSE IF client_data.name # "" THEN client_data.name
                       ELSE "Klienta"
        title == IF order_data.orderTitle # ""
                 THEN <<Paragraph(sec, "title", <<order_data.orderTitle>>)>>
                 ELSE <<>>
    IN  d \o <<Paragraph(sec, "doc_number", <<doc_label \o " " \o doc_number>>),
               Paragraph(sec, "client", <<"dlya " \o client_name>>),
               Paragraph(sec, "date", <<date_formatted>>),
               Blank(sec)>>
          \o title \o <<Blank(sec)>>

(***************************************************************************)
(* calculate_column_widths and add_work_description                        *)
(***************************************************************************)
\* calculate_column_widths without the minimum of the name column
calculate_column_widths_noMinimum(width_val) ==
    LET fixed_widths == <<10, 0, 20, 27, 27>>
        fixed_total == fixed_widths[1] + fixed_widths[2] + fixed_widths[3]
                       + fixed_widths[4] + fixed_widths[5]
    IN  [fixed_widths EXCEPT ![2] = width_val - fixed_total]

\* the widths of the five columns, in millimetres
calculate_column_widths(width_val) ==
    LET fixed_widths == <<10, 0, 20, 27, 27>>
        fixed_total == fixed_widths[1] + fixed_widths[2] + fixed_widths[3]
                       + fixed_widths[4] + fixed_widths[5]
        remaining_space == IF width_val - fixed_total < 50 THEN 50
                           ELSE width_val - fixed_total
    IN  [fixed_widths EXCEPT ![2] = remaining_space]

\* the row of one job with the unit price read from the payload's unitPrice
JobRow_storedPrice(idx, job) ==
    LET job_qty == Get(job.qty, "0")
        job_total == ParseFloat(Get(job.lineTotal, "0.00"))
        job_price_after_markup == ParseFloat(Get(job.unitPrice, "0.00"))
    IN  TableRow("work_description", "job",
                 <<IntToStr(idx), job.name, job_qty,
                   format_number_russian(job_price_after_markup),
                   format_number_russian(job_total)>>)

\* the row of one job: number, name, quantity, unit price, line total
JobRow(idx, job) ==
    LET job_qty == Get(job.qty, "0")
        job_total == ParseFloat(Get(job.lineTotal, "0.00"))
        job_qty_float == ParseFloat(Get(job.qty, "1"))
        job_price_after_markup ==
            IF IsPositive(job_qty_float) THEN DivFloat(job_total, job_qty_float)
            ELSE [units |-> 0, frac |-> 0, den |-> 1]
    IN  TableRow("work_description", "job",
                 <<IntToStr(idx), job.name, job_qty,
                   format_number_russian(job_price_after_markup),
                   format_number_russian(job_total)>>)

\* the text before the amount in the cost line
CostText(type) ==
    IF type = "specification" THEN "Stoimost postavki sostavlyaet: "
    ELSE "Stoimost rabot po zakazu sostavlyaet: "

\* the deadline sentence and the note after it
DeadlineText(type, work_days, days_spelled) ==
    IF type = "specification"
    THEN "Srok postavki - " \o IntToStr(work_days) \o " (" \o days_spelled
         \o ") rabochih dnej s momenta podpisaniya spetsifikatsii i vneseniya predoplaty."
    ELSE "Srok vypolneniya rabot - " \o IntToStr(work_days) \o " (" \o days_spelled
         \o ") rabochih dnej s momenta vneseniya predoplaty i podpisaniya smety."

NoteText(type) ==
    IF type = "specification" THEN "Mesto postavki - sklad postavshchika."
    ELSE "Sroki mogut byt uvelicheny po soglasovaniyu storon, v sluchae provedeniya dopolnitelnyh rabot."

\* add_work_description raises ValueError: a float() of the job rows, of the sum or
\* of the order total is given a text that is no number (after the early return)
add_work_description_raises(jobs_data, order_data) ==
    /\ jobs_data # <<>>
    /\ \/ \E i \in 1..Len(jobs_data) :
              \/ ~IsFloatText(Get(jobs_data[i].lineTotal, "0.00"))
              \/ ~IsFloatText(Get(jobs_data[i].qty, "1"))
       \/ ~IsFloatText(Get(order_data.total, "0.00"))

add_work_description(d, jobs_data, order_data, type, locale, work_days, available_width) ==
    LET sec == "work_description"
        header == [section |-> sec, kind |-> "jobs_header",
                   cells |-> <<"No", "Naimenovanie", "Kol-vo", "Stoimost", "Summa">>,
                   widths |-> calculate_column_widths(available_width)]
        job_rows == [i \in 1..Len(jobs_data) |-> JobRow(i, jobs_data[i])]
        total_sum == SumFloats([i \in 1..Len(jobs_data) |->
                                    ParseFloat(Get(jobs_data[i].lineTotal, "0.00"))])
        subtotal == TableRow(sec, "subtotal",
                             <<"", "", "", "Itogo:", format_number_russian(total_sum)>>)
        total == ParseFloat(Get(order_data.total, "0.00"))
        cost == IF IsRussian(locale)
                THEN Paragraph(sec, "cost",
                               <<CostText(type), format_number_russian(total) \o " rub.",
                                 " (" \o spell_money_russian(total) \o ") Bez NDS.">>)
                ELSE Paragraph(sec, "cost",
                               <<CostText(type), format_number_russian(total) \o " rub.">>)
        deadline == IF IsRussian(locale)
                    THEN <<Paragraph(sec, "deadline",
                                     <<DeadlineText(type, work_days,
                                                    spell_workdays_russian(work_days))>>),
                           Paragraph(sec, "note", <<NoteText(type)>>),
                           Blank(sec), Blank(sec)>>
                    ELSE <<>>
    IN  IF jobs_data = <<>>
        THEN Append(d, Paragraph(sec, "no_jobs", <<"Net rabot">>))
        ELSE d \o <<header>> \o job_rows \o <<subtotal, Blank(sec), cost, Blank(sec)>>
               \o deadline \o <<Blank(sec)>>

(***************************************************************************)
(* add_footer_section                                                      *)
(***************************************************************************)
SignatureLine == "________________/_________________/"

\* add_footer_section with the signature layout for every type
add_footer_section_signaturesOnly(d, company_data, type, locale) ==
    IF ~IsRussian(locale) THEN d
    ELSE d \o <<Blank("footer"),
                TableRow("footer", "signatures",
                         <<"Ispolnitel" \o "\n\n" \o SignatureLine,
                           "Zakazchik" \o "\n\n" \o SignatureLine>>)>>

add_footer_section(d, company_data, type, locale) ==
    LET sec == "footer"
        signatures ==
            TableRow(sec, "signatures",
                     <<"Ispolnitel" \o "\n\n" \o SignatureLine,
                       "Zakazchik" \o "\n\n" \o SignatureLine>>)
        director ==
            IF company_data.directorName # ""
            THEN "S uvazheniem," \o "\n\nTehnicheskij direktor"
                 \o "\n" \o Get(company_data.legalName, company_data.name)
                 \o "\n" \o company_data.directorName
            ELSE "S uvazheniem,"
        email == IF company_data.email # "" THEN "Email: " \o company_data.email ELSE ""
        phone == IF company_data.phone # ""
                 THEN (IF company_data.email # "" THEN "\nTel: " ELSE "Tel: ")
                      \o company_data.phone
                 ELSE ""
        contacts == TableRow(sec, "director_contacts", <<director, email \o phone>>)
    IN  IF ~IsRussian(locale) THEN d
        ELSE IF type = "invoice" \/ type = "specification"
        THEN d \o <<Blank(sec), signatures>>
        ELSE d \o <<Blank(sec), contacts>>

(***************************************************************************)
(* The values of the variables an operation does not use                   *)
(***************************************************************************)
\* a Python value with its type; None
Str(text) == [type |-> "str", value |-> text]
None == [type |-> "NoneType", value |-> ""]

\* a dict, by the value of its 'id' ("" for the empty dict)
Dict(id) == [type |-> "dict", value |-> id]

\* bool(value): None, '' and {} are false
Truthy(value) == value.type # "NoneType" /\ value.value # ""

\* the auth provider was not called
NotAsked == [raised |-> "", status |-> 0, body |-> ""]

\* no width and no date is being formatted
NoFormat ==
    /\ width_in = 0
    /\ date_in = None

\* s.rstrip('/')
RECURSIVE RStripSlash(_)
RStripSlash(text) ==
    IF Len(text) > 0 /\ Char(text, Len(text)) = "/"
    THEN RStripSlash(SubSeq(text, 1, Len(text) - 1))
    ELSE text

PRODUCTION_DOMAIN == "https://client-code-one.vercel.app"

\* ALLOWED_ORIGINS as the module leaves it at load, where VERCEL_ENV is vercel_env
\* ("" when it is not set)
LoadAllowedOrigins(vercel_env) ==
    <<PRODUCTION_DOMAIN, RStripSlash(PRODUCTION_DOMAIN)>>
    \o (IF vercel_env # "production"
        THEN <<"http://localhost:3000", "http://localhost:5173",
               "http://127.0.0.1:3000", "http://127.0.0.1:5173">>
        ELSE <<>>)

\* no request is being handled
NoRequest ==
    /\ request = <<>>
    /\ environ = <<>>
    /\ answer = NotAsked
    /\ user = None
    /\ responses = <<>>
    /\ log = <<>>
    /\ ALLOWED_ORIGINS = LoadAllowedOrigins("")
    /\ served = <<>>

(***************************************************************************)
(* generate_document as a state machine: the four sections are added in    *)
(* the order of the calls                                                  *)
(***************************************************************************)
\* the usable page width in millimetres (AVAILABLE_WIDTH = Mm(190))
AvailableWidth == 190

Locale == Get(data.locale, "ru-RU")

NoCompany ==
    [name |-> "", address |-> "", bankName |-> "", bankAccount |-> "",
     correspondentAccount |-> "", bankBik |-> "", inn |-> "", kpp |-> "",
     directorName |-> "", legalName |-> <<>>, email |-> "", phone |-> ""]

FullCompany ==
    [name |-> "MK SERVIS", address |-> "Moskva", bankName |-> "Bank", bankAccount |-> "407",
     correspondentAccount |-> "301", bankBik |-> "044", inn |-> "7701", kpp |-> "7702",
     directorName |-> "Ivanov", legalName |-> <<"OOO MK">>, email |-> "a@b.ru",
     phone |-> "123"]

Companies ==
    {NoCompany, FullCompany,
     [NoCompany EXCEPT !.name = "MK SERVIS", !.directorName = "Ivanov", !.phone = "123"],
     [FullCompany EXCEPT !.bankName = "", !.inn = "", !.email = "", !.legalName = <<"">>]}

Clients ==
    {[company |-> "", name |-> ""], [company |-> "", name |-> "Petrov"],
     [company |-> "OOO Klient", name |-> "Petrov"]}

JobValues ==
    {[name |-> "Work A", qty |-> <<"2">>, lineTotal |-> <<"200.00">>, unitPrice |-> <<"150.00">>],
     [name |-> "Work B", qty |-> <<"0">>, lineTotal |-> <<"100.50">>, unitPrice |-> <<"7.00">>],
     [name |-> "Work C", qty |-> <<>>, lineTotal |-> <<"100.00">>, unitPrice |-> <<>>],
     [name |-> "Work D", qty |-> <<"-2">>, lineTotal |-> <<"50.00">>, unitPrice |-> <<"25.00">>],
     [name |-> "", qty |-> <<"3">>, lineTotal |-> <<>>, unitPrice |-> <<>>],
     [name |-> "Work E", qty |-> <<"3">>, lineTotal |-> <<"1000.00">>, unitPrice |-> <<>>]}
JobLists == UNION {[1..n -> JobValues] : n \in 0..MaxJobs}

OrderTotals == {<<>>, <<"200.00">>, <<"300.50">>}
WorkDayCounts == {<<>>, <<21>>}
Locales == {<<>>, <<"ru-RU">>, <<"en-US">>, <<"">>}
DocTypes == {"invoice", "specification", "po", "receipt"}
Dates == {[year |-> 2025, month |-> 1, day |-> 5], [year |-> 2024, month |-> 2, day |-> 29]}

BaseOrder == [id |-> <<"KP-2025-193">>, orderTitle |-> "", total |-> <<"200.00">>]

\* payloads that vary the line items, the total and the day count
JobPayloads ==
    {[locale |-> l, company |-> FullCompany, client |-> [company |-> "", name |-> "Petrov"],
      order |-> [BaseOrder EXCEPT !.total = t], jobs |-> j, workCompletionDays |-> w] :
         l \in {<<"ru-RU">>, <<"en-US">>}, t \in OrderTotals, j \in JobLists,
         w \in WorkDayCounts}

\* payloads that vary the company, the client and the order header
HeaderPayloads ==
    {[locale |-> l, company |-> c, client |-> k,
      order |-> [BaseOrder EXCEPT !.id = i, !.orderTitle = h],
      jobs |-> <<[name |-> "Work A", qty |-> <<"2">>, lineTotal |-> <<"200.00">>,
                  unitPrice |-> <<"150.00">>]>>,
      workCompletionDays |-> <<>>] :
         l \in Locales, c \in Companies, k \in Clients,
         i \in {<<>>, <<"KP-2025-193">>, <<"order-a">>}, h \in {"", "Remont"}}

InitDocument ==
    /\ pc = "generate_document"
    /\ data \in JobPayloads \cup HeaderPayloads
    /\ doc_type \in DocTypes
    /\ today \in Dates
    /\ doc = <<>>
    /\ num = 0
    /\ feminine = FALSE
    /\ forms = <<>>
    /\ amount = Amount(0, 0)
    /\ order_id = ""
    /\ NoFormat
    /\ NoRequest
    /\ out = ""

AddCompanyHeader ==
    /\ pc = "generate_document"
    /\ doc' = add_company_header(doc, data.company, Locale)
    /\ pc' = "add_company_header"
    /\ UNCHANGED <<out, numeralVars, orderVars, data, doc_type, today, formatVars, handlerVars>>

AddDocumentHeader ==
    /\ pc = "add_company_header"
    /\ doc' = add_document_header(doc, data.order, data.client, doc_type, Locale, today)
    /\ pc' = "add_document_header"
    /\ UNCHANGED <<out, numeralVars, orderVars, data, doc_type, today, formatVars, handlerVars>>

AddWorkDescription ==
    /\ pc = "add_document_header"
    /\ IF add_work_description_raises(data.jobs, data.order)
       THEN /\ pc' = "except Exception"
            /\ UNCHANGED doc
       ELSE /\ doc' = add_work_description(doc, data.jobs, data.order, doc_type, Locale,
                                           Get(data.workCompletionDays, 30), AvailableWidth)
            /\ pc' = "add_work_description"
    /\ UNCHANGED <<out, numeralVars, orderVars, data, doc_type, today, formatVars, handlerVars>>

AddFooterSection ==
    /\ pc = "add_work_description"
    /\ doc' = add_footer_section(doc, data.company, doc_type, Locale)
    /\ pc' = "add_footer_section"
    /\ UNCHANGED <<out, numeralVars, orderVars, data, doc_type, today, formatVars, handlerVars>>

NextDocument ==
    AddCompanyHeader \/ AddDocumentHeader \/ AddWorkDescription \/ AddFooterSection

SpecDocument == InitDocument /\ [][NextDocument]_vars

\* no document is being generated
NoDocument ==
    /\ data = <<>>
    /\ doc_type = ""
    /\ today = <<>>
    /\ doc = <<>>

(***************************************************************************)
(* The numeral engine as a state machine: an integer is handed in, one of  *)
(* the four functions is applied to it                                     *)
(***************************************************************************)
\* the tails spelled after a thousands or millions count
Tails == {0, 1, 2, 5, 11, 21, 100, 999}

\* thousands counts spelled besides 1..MaxThousands
ThousandsCounts == (1..MaxThousands) \cup {100, 101, 111, 112, 121, 122, 125, 999}

Nums ==
    (0..MaxSmall)
    \cup {t * 1000 + r : t \in ThousandsCounts, r \in Tails}
    \cup {m * 1000000 + t * 1000 + r :
              m \in (1..MaxMillions) \cup {101, 111, 999}, t \in {0, 1, 2, 5, 21}, r \in {0, 1, 12}}
    \cup {-n : n \in 1..MaxNegative}

\* the fractional parts of an amount, in thousandths
Fractions == {0, 499, 500, 501}

\* the fractional parts handed to the two-decimal formatter, in thousandths
DecimalFractions == {0, 4, 10, 499, 501, 994, 996}

\* the fractional parts handed to the speller with kopecks, in thousandths
KopeckFractions == {0, 4, 10, 20, 50, 110, 210, 499, 501, 994, 996}

FormTables == {THOUSANDS, MILLIONS, RUBLES, KOPECKS, WORKDAYS}

InitNumeral ==
    /\ pc = "input"
    /\ num \in Nums
    /\ feminine = FALSE
    /\ forms = <<>>
    /\ amount = Amount(0, 0)
    /\ order_id = ""
    /\ NoDocument
    /\ NoFormat
    /\ NoRequest
    /\ out = ""

GetDeclension ==
    /\ pc = "input"
    /\ \E table \in FormTables :
          /\ forms' = table
          /\ out' = get_declension(num, table)
    /\ pc' = "get_declension"
    /\ UNCHANGED <<num, feminine, amount, orderVars, documentVars, formatVars, handlerVars>>

SpellNumber ==
    /\ pc = "input"
    /\ \E fem \in BOOLEAN :
          /\ feminine' = fem
          /\ out' = spell_number_russian(num, fem)
    /\ pc' = "spell_number_russian"
    /\ UNCHANGED <<num, forms, amount, orderVars, documentVars, formatVars, handlerVars>>

SpellMoney ==
    /\ pc = "input"
    /\ \E frac \in Fractions :
          /\ amount' = Amount(num, frac)
          /\ out' = spell_money_russian(Amount(num, frac))
    /\ pc' = "spell_money_russian"
    /\ UNCHANGED <<num, feminine, forms, orderVars, documentVars, formatVars, handlerVars>>

SpellWorkdays ==
    /\ pc = "input"
    /\ out' = spell_workdays_russian(num)
    /\ pc' = "spell_workdays_russian"
    /\ UNCHANGED <<numeralVars, orderVars, documentVars, formatVars, handlerVars>>

FormatNumber ==
    /\ pc = "input"
    /\ \E frac \in Fractions :
          /\ amount' = Amount(num, frac)
          /\ out' = format_number_russian(Amount(num, frac))
    /\ pc' = "format_number_russian"
    /\ UNCHANGED <<num, feminine, forms, orderVars, documentVars, formatVars, handlerVars>>

FormatNumberDecimal ==
    /\ pc = "input"
    /\ \E frac \in DecimalFractions :
          /\ amount' = Amount(num, frac)
          /\ out' = format_number_russian_decimal(Amount(num, frac))
    /\ pc' = "format_number_russian_decimal"
    /\ UNCHANGED <<num, feminine, forms, orderVars, documentVars, formatVars, handlerVars>>

SpellMoneyFractional ==
    /\ pc = "input"
    /\ \E frac \in KopeckFractions :
          /\ amount' = Amount(num, frac)
          /\ out' = spell_money_russian_fractional(Amount(num, frac))
    /\ pc' = "spell_money_russian_fractional"
    /\ UNCHANGED <<num, feminine, forms, orderVars, documentVars, formatVars, handlerVars>>

NextNumeral ==
    \/ GetDeclension
    \/ SpellNumber
    \/ SpellMoney
    \/ SpellMoneyFractional
    \/ SpellWorkdays
    \/ FormatNumber
    \/ FormatNumberDecimal

SpecNumeral == InitNumeral /\ [][NextNumeral]_vars

(***************************************************************************)
(* The order-number extraction as a state machine: an identifier is handed *)
(* in, extract_order_number is applied to it                               *)
(***************************************************************************)
IdChars == {"1", "2", "-", "a"}

RECURSIVE Concat(_)
Concat(chars) == IF Len(chars) = 0 THEN "" ELSE Head(chars) \o Concat(Tail(chars))

OrderIds ==
    {Concat(q) : q \in UNION {[1..n -> IdChars] : n \in 0..MaxIdLen}}
    \cup {"order-27193", "KP-2025-193", "noDigitsHere", "KP-2025-", "a1-b2-c"}

InitOrderNumber ==
    /\ pc = "input"
    /\ order_id \in OrderIds
    /\ num = 0
    /\ feminine = FALSE
    /\ forms = <<>>
    /\ amount = Amount(0, 0)
    /\ NoDocument
    /\ NoFormat
    /\ NoRequest
    /\ out = ""

ExtractOrderNumber ==
    /\ pc = "input"
    /\ out' = extract_order_number(order_id)
    /\ pc' = "extract_order_number"
    /\ UNCHANGED <<numeralVars, orderVars, documentVars, formatVars, handlerVars>>

NextOrderNumber == ExtractOrderNumber

SpecOrderNumber == InitOrderNumber /\ [][NextOrderNumber]_vars

(***************************************************************************)
(* verify_supabase_token and the handler: do_POST, do_GET, do_OPTIONS      *)
(***************************************************************************)
\* s.replace(old, '') of a non-empty old
RECURSIVE RemoveAll(_, _)
RemoveAll(text, old) ==
    IF Len(text) < Len(old) THEN text
    ELSE IF SubSeq(text, 1, Len(old)) = old
    THEN RemoveAll(SubSeq(text, Len(old) + 1, Len(text)), old)
    ELSE Char(text, 1) \o RemoveAll(SubSeq(text, 2, Len(text)), old)

\* s.strip() of a text whose only whitespace is the space
RECURSIVE Strip(_)
Strip(text) ==
    IF Len(text) = 0 THEN ""
    ELSE IF Char(text, 1) = " " THEN Strip(SubSeq(text, 2, Len(text)))
    ELSE IF Char(text, Len(text)) = " " THEN Strip(SubSeq(text, 1, Len(text) - 1))
    ELSE text

\* s.endswith(suffix)
EndsWith(s, suffix) ==
    Len(s) >= Len(suffix) /\ SubSeq(s, Len(s) - Len(suffix) + 1, Len(s)) = suffix

\* auth_header and auth_header.startswith('Bearer '), of any header that is not empty
BearerHeader_anyScheme(auth_header) == Get(auth_header, "") # ""

\* auth_header and auth_header.startswith('Bearer '); a missing header is None
BearerHeader(auth_header) ==
    LET text == Get(auth_header, "")
    IN  Len(text) >= 7 /\ SubSeq(text, 1, 7) = "Bearer "

\* auth_header.replace('Bearer ', '').strip()
Token(auth_header) == Strip(RemoveAll(auth_header[1], "Bearer "))

\* json.loads of the body the provider sent: a failure when it is no JSON
JsonUser(body) ==
    IF body = "{\"id\": \"u1\"}" THEN [ok |-> TRUE, value |-> Dict("u1")]
    ELSE IF body = "{}" THEN [ok |-> TRUE, value |-> Dict("")]
    ELSE IF body = "null" THEN [ok |-> TRUE, value |-> None]
    ELSE IF body = "[1]" THEN [ok |-> TRUE, value |-> [type |-> "list", value |-> "1"]]
    ELSE [ok |-> FALSE, value |-> None]

\* the provider is called: the configuration is there and the token is not empty
ProviderCalled(token, env) ==
    token # "" /\ env.VITE_SUPABASE_URL # "" /\ env.VITE_SUPABASE_ANON_KEY # ""

\* verify_supabase_token, given what the provider answers when it is called:
\* urlopen raises on a timeout, on a network error and on a status outside
\* 2xx, and the except clause returns None
verify_supabase_token(token, env, provider) ==
    IF token = "" THEN None
    ELSE IF env.VITE_SUPABASE_URL = "" \/ env.VITE_SUPABASE_ANON_KEY = ""
    THEN (IF env.VERCEL_ENV # "production" THEN Dict("local-dev-user") ELSE None)
    ELSE IF provider.raised # "" THEN None
    ELSE IF provider.status \notin 200..299 THEN None
    ELSE IF provider.status = 200
    THEN (IF JsonUser(provider.body).ok THEN JsonUser(provider.body).value ELSE None)
    ELSE None

\* normalize_origin; None and the missing header are <<>>
normalize_origin(origin) ==
    IF Get(origin, "") = "" THEN <<>> ELSE <<RStripSlash(origin[1])>>

is_origin_allowed_exact(origin) ==
    /\ Get(origin, "") # ""
    /\ \E i \in 1..Len(ALLOWED_ORIGINS) : origin[1] = ALLOWED_ORIGINS[i]

is_origin_allowed(origin) ==
    /\ Get(origin, "") # ""
    /\ \E i \in 1..Len(ALLOWED_ORIGINS) :
           normalize_origin(origin) = normalize_origin(<<ALLOWED_ORIGINS[i]>>)

\* get_cors_headers: the headers as (name, value) pairs, in the order they are sent
get_cors_headers(origin) ==
    IF Get(origin, "") # "" /\ is_origin_allowed(origin)
    THEN <<<<"Access-Control-Allow-Origin", origin[1]>>,
           <<"Access-Control-Allow-Methods", "POST, OPTIONS, GET">>,
           <<"Access-Control-Allow-Headers", "Content-Type, Authorization">>,
           <<"Access-Control-Allow-Credentials", "true">>>>
    ELSE <<>>

\* send_error_response: status line, headers and the JSON body {"error": message}
ErrorResponse(status_code, message) ==
    [status |-> status_code,
     headers |-> <<<<"Content-Type", "application/json">>>>
                 \o get_cors_headers(request.Origin)
                 \o <<<<"Content-Length", "len(error_response)">>>>,
     body |-> message]

DocxType == "application/vnd.openxmlformats-officedocument.wordprocessingml.document"

\* the filename do_POST gives the document
Filename(prefix, type, order_data) ==
    LET document_prefix == Get(prefix, type)
        order_id_text == Get(order_data.id, "document")
        order_numbers == DigitsOnly(order_id_text)
    IN  document_prefix \o "-" \o order_numbers \o ".docx"

\* the response do_POST sends with the document
DocumentResponse(filename) ==
    [status |-> 200,
     headers |-> <<<<"Content-Type", DocxType>>,
                   <<"Content-Disposition", "attachment; filename=\"" \o filename \o "\"">>>>
                 \o get_cors_headers(request.Origin)
                 \o <<<<"Content-Length", "len(doc_bytes)">>>>,
     body |-> "docx"]

\* the response of the health check
HealthResponse ==
    [status |-> 200,
     headers |-> <<<<"Content-Type", "application/json">>>>
                 \o get_cors_headers(request.Origin)
                 \o <<<<"Content-Length", "len(response)">>>>,
     body |-> "{\"status\": \"healthy\"}"]

\* the response of do_OPTIONS
PreflightResponse ==
    [status |-> 200,
     headers |-> get_cors_headers(request.Origin) \o <<<<"Access-Control-Max-Age", "3600">>>>,
     body |-> ""]

AuthorizationHeaders ==
    {<<>>, <<"">>, <<"Basic abc">>, <<"bearer abc">>, <<"Bearer">>, <<"Bearer ">>,
     <<"Bearer   ">>, <<"Bearer abc">>, <<"Bearer Bearer abc">>, <<"abc Bearer ">>}

\* the request bodies: none, one that is no JSON, and well-formed payloads
HandlerPayload ==
    [locale |-> <<"ru-RU">>, company |-> FullCompany,
     client |-> [company |-> "", name |-> "Petrov"], order |-> BaseOrder,
     jobs |-> <<[name |-> "Work A", qty |-> <<"2">>, lineTotal |-> <<"200.00">>,
                 unitPrice |-> <<>>]>>,
     workCompletionDays |-> <<>>]

NoBody ==
    [content_length |-> <<>>, json |-> FALSE, object |-> FALSE, type |-> <<>>,
     documentPrefix |-> <<>>, payload |-> <<>>]

\* a body that holds a JSON object with the payload
ObjectBody(type, prefix, payload) ==
    [content_length |-> <<"300">>, json |-> TRUE, object |-> TRUE, type |-> type,
     documentPrefix |-> prefix, payload |-> payload]

Bodies ==
    {NoBody, [NoBody EXCEPT !.content_length = <<"0">>],
     [NoBody EXCEPT !.content_length = <<"5">>]}
    \cup {ObjectBody(t, <<>>, HandlerPayload) :
              t \in {<<>>, <<"invoice">>, <<"specification">>, <<"po">>, <<"receipt">>}}

\* bodies that are malformed: a Content-Length that is no number, a JSON text
\* that is no object, and objects whose lineTotal, qty or total is no number
MalformedBodies ==
    {[NoBody EXCEPT !.content_length = <<"abc">>],
     [NoBody EXCEPT !.content_length = <<"3">>, !.json = TRUE],
     ObjectBody(<<>>, <<>>, [HandlerPayload EXCEPT !.jobs[1].lineTotal = <<"abc">>]),
     ObjectBody(<<>>, <<>>, [HandlerPayload EXCEPT !.jobs[1].qty = <<"two">>]),
     ObjectBody(<<>>, <<>>, [HandlerPayload EXCEPT !.order.total = <<"">>]),
     ObjectBody(<<>>, <<>>, [HandlerPayload EXCEPT !.order.total = <<"abc">>, !.jobs = <<>>])}

\* bodies that vary the filename: the prefix and the order identifier
NamedBodies ==
    {ObjectBody(t, p, [HandlerPayload EXCEPT !.order.id = i]) :
         t \in {<<>>, <<"invoice">>}, p \in {<<>>, <<"KP">>, <<"">>},
         i \in {<<>>, <<"KP-2025-193">>, <<"order-22650">>, <<"order-a">>, <<"12-a">>}}

\* bodies whose total or day count is negative
NegativeBodies ==
    {ObjectBody(<<>>, <<>>, [HandlerPayload EXCEPT !.order.total = t,
                                                   !.workCompletionDays = w]) :
         t \in {<<"200.00">>, <<"-200.00">>, <<"-0.40">>}, w \in {<<>>, <<-5>>, <<0>>}}

Paths == {"/api/generate", "/v2/generate", "/api/other", "/"}

Origins ==
    {<<>>, <<"">>, <<PRODUCTION_DOMAIN>>, <<PRODUCTION_DOMAIN \o "/">>,
     <<PRODUCTION_DOMAIN \o "//">>, <<"http://localhost:3000">>,
     <<"http://127.0.0.1:5173/">>, <<"https://evil.example">>,
     <<PRODUCTION_DOMAIN \o ".evil.example">>}

\* the requests of one method that vary the path and the Origin header, with
\* and without a token
RequestsOf(method) ==
    {[method |-> method, path |-> p, Origin |-> o, Authorization |-> h, body |-> b] :
         p \in Paths, o \in Origins, h \in {<<>>, <<"Bearer abc">>},
         b \in {NoBody, ObjectBody(<<>>, <<>>, HandlerPayload)}}

\* the POST requests: every Authorization header and every body at the usual
\* path, and every path and Origin
Requests ==
    {[method |-> "POST", path |-> "/api/generate", Origin |-> <<>>,
      Authorization |-> h, body |-> b] : h \in AuthorizationHeaders, b \in Bodies}
    \cup {[method |-> "POST", path |-> "/api/generate", Origin |-> <<>>,
           Authorization |-> <<"Bearer abc">>, body |-> b] :
              b \in MalformedBodies \cup NamedBodies \cup NegativeBodies}
    \cup RequestsOf("POST")

Environs ==
    {[VITE_SUPABASE_URL |-> u, VITE_SUPABASE_ANON_KEY |-> k, VERCEL_ENV |-> e] :
         u \in {"", "https://p.supabase.co"}, k \in {"", "anon"},
         e \in {"", "production", "preview"}}

\* what the provider can answer to the verification call
ProviderAnswers ==
    {[raised |-> "timeout", status |-> 0, body |-> ""],
     [raised |-> "URLError", status |-> 0, body |-> ""]}
    \cup {[raised |-> "", status |-> 200, body |-> b] :
              b \in {"{\"id\": \"u1\"}", "{}", "null", "<html>", "[1]"}}
    \cup {[raised |-> "", status |-> c, body |-> "{\"id\": \"u1\"}"] : c \in {204, 401, 403, 500}}

\* the state when a request arrives: the module was loaded under this environment
RequestArrives(method, requests) ==
    /\ pc = method
    /\ request \in requests
    /\ environ \in Environs
    /\ ALLOWED_ORIGINS = LoadAllowedOrigins(environ.VERCEL_ENV)
    /\ served = <<>>
    /\ answer = NotAsked
    /\ user = None
    /\ responses = <<>>
    /\ log = <<>>
    /\ num = 0
    /\ feminine = FALSE
    /\ forms = <<>>
    /\ amount = Amount(0, 0)
    /\ order_id = ""
    /\ NoDocument
    /\ NoFormat
    /\ out = ""

InitHandler == RequestArrives("do_POST", Requests)

\* Document() handing out the document of the request before
Document_shared == IF served = <<>> THEN <<>> ELSE served[Len(served)].doc

\* Document(): a new, empty document
Document == <<>>

\* the check of the Authorization header
CheckAuthorization ==
    /\ pc = "do_POST"
    /\ IF BearerHeader(request.Authorization)
       THEN /\ pc' = "verify_supabase_token"
            /\ UNCHANGED responses
       ELSE /\ responses' = Append(responses,
                                   ErrorResponse(401, "Unauthorized: Authentication required"))
            /\ pc' = "done"
    /\ UNCHANGED <<out, numeralVars, orderVars, documentVars, formatVars,
                   request, environ, answer, user, log, ALLOWED_ORIGINS, served>>

\* user = verify_supabase_token(token), the check of its result and
\* user.get('id', 'unknown'), which raises AttributeError when user is no dict
VerifyToken ==
    /\ pc = "verify_supabase_token"
    /\ \E provider \in ProviderAnswers :
          LET token == Token(request.Authorization)
              verified == verify_supabase_token(token, environ, provider)
          IN  /\ answer' = IF ProviderCalled(token, environ) THEN provider ELSE NotAsked
              /\ user' = verified
              /\ IF ~Truthy(verified)
                 THEN /\ responses' =
                             Append(responses,
                                    ErrorResponse(401, "Unauthorized: Invalid or expired token"))
                      /\ pc' = "done"
                 ELSE IF verified.type # "dict"
                 THEN /\ responses' = Append(responses,
                                             ErrorResponse(500, "Error generating document"))
                      /\ pc' = "done"
                 ELSE /\ pc' = "read_body"
                      /\ UNCHANGED responses
    /\ log' = Append(log, "verify_supabase_token")
    /\ UNCHANGED <<out, numeralVars, orderVars, documentVars, formatVars, request, environ,
                   ALLOWED_ORIGINS, served>>

\* content_length = int(...), which raises ValueError on a text that is no
\* number, the Content-Length check and self.rfile.read
ReadBody ==
    /\ pc = "read_body"
    /\ IF ~IsDigits(Get(request.body.content_length, "0"))
       THEN /\ responses' = Append(responses, ErrorResponse(500, "Error generating document"))
            /\ pc' = "done"
            /\ UNCHANGED log
       ELSE IF ParseInt(Get(request.body.content_length, "0")) = 0
       THEN /\ responses' = Append(responses, ErrorResponse(400, "Request body is required"))
            /\ pc' = "done"
            /\ UNCHANGED log
       ELSE /\ log' = Append(log, "rfile.read")
            /\ pc' = "json.loads"
            /\ UNCHANGED responses
    /\ UNCHANGED <<out, numeralVars, orderVars, documentVars, formatVars,
                   request, environ, answer, user, ALLOWED_ORIGINS, served>>

\* data = json.loads(body), doc_type = data.get('type', 'po'), which raises
\* AttributeError when data is no dict, and the call of generate_document
ParseBody ==
    /\ pc = "json.loads"
    /\ IF ~request.body.json
       THEN /\ responses' = Append(responses, ErrorResponse(400, "Invalid JSON"))
            /\ log' = Append(log, "json.loads")
            /\ pc' = "done"
            /\ UNCHANGED <<data, doc_type, today, doc>>
       ELSE IF ~request.body.object
       THEN /\ responses' = Append(responses, ErrorResponse(500, "Error generating document"))
            /\ log' = Append(log, "json.loads")
            /\ pc' = "done"
            /\ UNCHANGED <<data, doc_type, today, doc>>
       ELSE /\ data' = request.body.payload
            /\ doc_type' = Get(request.body.type, "po")
            /\ today' \in Dates
            /\ doc' = Document
            /\ log' = log \o <<"json.loads", "generate_document">>
            /\ pc' = "generate_document"
            /\ UNCHANGED responses
    /\ UNCHANGED <<out, numeralVars, orderVars, formatVars,
                   request, environ, answer, user, ALLOWED_ORIGINS, served>>

\* what writing the response to the client can do
WriteOutcomes == {"written", "BrokenPipeError"}

\* the response with the document, once generate_document has returned: the
\* status line and the headers, then self.wfile.write(doc_bytes); when the
\* write raises, the except clause sends an error response
SendDocument ==
    /\ pc = "add_footer_section"
    /\ log # <<>>
    /\ \E write \in WriteOutcomes :
          LET sent == DocumentResponse(Filename(request.body.documentPrefix, doc_type,
                                                data.order))
          IN  responses' =
                  IF write = "written" THEN Append(responses, sent)
                  ELSE responses \o <<sent, ErrorResponse(500, "Error generating document")>>
    /\ served' = Append(served, [data |-> data, doc_type |-> doc_type, today |-> today,
                                 doc |-> doc])
    /\ pc' = "done"
    /\ UNCHANGED <<out, numeralVars, orderVars, documentVars, formatVars,
                   request, environ, answer, user, log, ALLOWED_ORIGINS>>

\* the except clause of do_POST, for an exception of generate_document
SendError ==
    /\ pc = "except Exception"
    /\ log # <<>>
    /\ responses' = Append(responses, ErrorResponse(500, "Error generating document"))
    /\ pc' = "done"
    /\ UNCHANGED <<out, numeralVars, orderVars, documentVars, formatVars,
                   request, environ, answer, user, log, ALLOWED_ORIGINS, served>>

NextHandler ==
    \/ CheckAuthorization
    \/ VerifyToken
    \/ ReadBody
    \/ ParseBody
    \/ NextDocument
    \/ SendDocument
    \/ SendError

SpecHandler == InitHandler /\ [][NextHandler]_vars

(***************************************************************************)
(* The three methods of the handler: the server calls do_POST, do_GET or   *)
(* do_OPTIONS by the method of the request                                 *)
(***************************************************************************)
InitGet == RequestArrives("do_GET", RequestsOf("GET"))

InitOptions == RequestArrives("do_OPTIONS", RequestsOf("OPTIONS"))

\* do_GET: the health check, and 404 for any other path
DoGet ==
    /\ pc = "do_GET"
    /\ responses' =
           IF request.path = "/api/generate" \/ EndsWith(request.path, "/generate")
           THEN Append(responses, HealthResponse)
           ELSE Append(responses, ErrorResponse(404, "Not Found"))
    /\ pc' = "done"
    /\ UNCHANGED <<out, numeralVars, orderVars, documentVars, formatVars,
                   request, environ, answer, user, log, ALLOWED_ORIGINS, served>>

\* do_OPTIONS: the preflight answer
DoOptions ==
    /\ pc = "do_OPTIONS"
    /\ responses' = Append(responses, PreflightResponse)
    /\ pc' = "done"
    /\ UNCHANGED <<out, numeralVars, orderVars, documentVars, formatVars,
                   request, environ, answer, user, log, ALLOWED_ORIGINS, served>>

InitApi == InitHandler \/ InitGet \/ InitOptions

NextApi == NextHandler \/ DoGet \/ DoOptions

SpecApi == InitApi /\ [][NextApi]_vars

(***************************************************************************)
(* One process handling request after request: the module stays loaded,    *)
(* the locals of do_POST are new in every call                             *)
(***************************************************************************)
\* the requests the model follows a process over
ServerRequests ==
    {[method |-> "POST", path |-> "/api/generate", Origin |-> <<>>,
      Authorization |-> <<"Bearer abc">>, body |-> ObjectBody(t, <<>>, HandlerPayload)] :
         t \in {<<>>, <<"invoice">>}}
    \cup {[method |-> "POST", path |-> "/api/generate", Origin |-> <<>>,
           Authorization |-> <<>>, body |-> NoBody],
          [method |-> "POST", path |-> "/api/generate", Origin |-> <<>>,
           Authorization |-> <<"Bearer abc">>,
           body |-> ObjectBody(<<>>, <<>>,
                               [HandlerPayload EXCEPT !.jobs[1].lineTotal = <<"abc">>])]}

InitServer == RequestArrives("do_POST", ServerRequests)

\* the next request arrives once the one before was answered
NewRequest ==
    /\ pc = "done"
    /\ request \in ServerRequests
    /\ Len(served) < MaxServed
    /\ request' \in ServerRequests
    /\ answer' = NotAsked
    /\ user' = None
    /\ responses' = <<>>
    /\ log' = <<>>
    /\ data' = <<>>
    /\ doc_type' = ""
    /\ today' = <<>>
    /\ doc' = <<>>
    /\ pc' = "do_POST"
    /\ UNCHANGED <<out, numeralVars, orderVars, formatVars, environ, ALLOWED_ORIGINS, served>>

NextServer == NextHandler \/ NewRequest

SpecServer == InitServer /\ [][NextServer]_vars

(***************************************************************************)
(* The endpoint of python-service: generate_docx answers POST /generate    *)
(* without authentication; the content of its document is not built here   *)
(***************************************************************************)
\* the filename generate_docx gives the document
ServiceFilename(type, order_data) ==
    type \o "-" \o Get(order_data.id, "document") \o ".docx"

\* send_file(..., as_attachment=True, download_name=filename, mimetype=...)
ServiceDocumentResponse(filename) ==
    [status |-> 200,
     headers |-> <<<<"Content-Type", DocxType>>,
                   <<"Content-Disposition", "attachment; filename=" \o filename>>>>,
     body |-> "docx"]

\* jsonify({'error': str(e)}), 500
ServiceErrorResponse ==
    [status |-> 500, headers |-> <<<<"Content-Type", "application/json">>>>,
     body |-> "str(e)"]

ServiceRequests ==
    {[method |-> "POST", path |-> "/generate", Origin |-> <<>>, Authorization |-> <<>>,
      body |-> b] : b \in Bodies \cup MalformedBodies \cup NamedBodies}

InitService ==
    /\ pc = "generate_docx"
    /\ request \in ServiceRequests
    /\ environ = <<>>
    /\ ALLOWED_ORIGINS = LoadAllowedOrigins("")
    /\ served = <<>>
    /\ answer = NotAsked
    /\ user = None
    /\ responses = <<>>
    /\ log = <<>>
    /\ num = 0
    /\ feminine = FALSE
    /\ forms = <<>>
    /\ amount = Amount(0, 0)
    /\ order_id = ""
    /\ NoDocument
    /\ NoFormat
    /\ out = ""

\* generate_docx: request.get_json() raises on a body that is no JSON,
\* data.get raises on a value that is no object, generate_document raises on
\* a number that is no number; every exception is answered with 500
GenerateDocx ==
    /\ pc = "generate_docx"
    /\ responses' =
           IF \/ ~request.body.json
              \/ ~request.body.object
              \/ add_work_description_raises(request.body.payload.jobs,
                                             request.body.payload.order)
           THEN Append(responses, ServiceErrorResponse)
           ELSE Append(responses,
                       ServiceDocumentResponse(
                           ServiceFilename(Get(request.body.type, "po"),
                                           request.body.payload.order)))
    /\ pc' = "done"
    /\ UNCHANGED <<out, numeralVars, orderVars, documentVars, formatVars,
                   request, environ, answer, user, log, ALLOWED_ORIGINS, served>>

SpecService == InitService /\ [][GenerateDocx]_vars

(***************************************************************************)
(* The column layout as a state machine: a width is handed in,             *)
(* calculate_column_widths is applied to it                                *)
(***************************************************************************)
InitColumnWidths ==
    /\ pc = "input"
    /\ width_in \in 0..MaxWidth
    /\ date_in = None
    /\ num = 0
    /\ feminine = FALSE
    /\ forms = <<>>
    /\ amount = Amount(0, 0)
    /\ order_id = ""
    /\ NoDocument
    /\ NoRequest
    /\ out = ""

CalculateColumnWidths ==
    /\ pc = "input"
    /\ out' = calculate_column_widths(width_in)
    /\ pc' = "calculate_column_widths"
    /\ UNCHANGED <<numeralVars, orderVars, documentVars, formatVars, handlerVars>>

NextColumnWidths == CalculateColumnWidths

SpecColumnWidths == InitColumnWidths /\ [][NextColumnWidths]_vars

(***************************************************************************)
(* The date formatter as a state machine: a value is handed in,            *)
(* format_date_full_russian is applied to it                               *)
(***************************************************************************)
YearTexts == {"2025", "2024", "1900", "0001", "0000", "99", "20255"}
MonthTexts == {"1", "01", "2", "02", "06", "12", "13", "00"}
DayTexts == {"1", "05", "15", "29", "30", "31", "32", "0"}
MonthWords == {"Jan", "feb", "DEC", "Sep", "Foo", "June"}

DateInputs ==
    {Str(y \o "-" \o m \o "-" \o d) : y \in YearTexts, m \in MonthTexts, d \in DayTexts}
    \cup {Str(w \o " " \o d \o ", " \o y) :
              w \in MonthWords, d \in {"15", "5", "31", "0"}, y \in {"2025", "99"}}
    \cup {Str(""), Str("abc"), Str("2025/01/15"), Str("2025-01-15 10:30"),
           Str("15.01.2025"), Str("2025-01"), Str("2025-01-15-"), Str("Jan 15 2025"),
           Str("-01-15"), Str("20250115"),
           None, [type |-> "int", value |-> "20250115"]}

InitDate ==
    /\ pc = "input"
    /\ date_in \in DateInputs
    /\ width_in = 0
    /\ num = 0
    /\ feminine = FALSE
    /\ forms = <<>>
    /\ amount = Amount(0, 0)
    /\ order_id = ""
    /\ NoDocument
    /\ NoRequest
    /\ out = ""

\* a value that is no string raises TypeError at ' ' in date_str, inside the
\* try block, and the except clause returns it
FormatDateFull ==
    /\ pc = "input"
    /\ out' = IF date_in.type = "str"
              THEN Str(format_date_full_russian(date_in.value))
              ELSE date_in
    /\ pc' = "format_date_full_russian"
    /\ UNCHANGED <<numeralVars, orderVars, documentVars, formatVars, handlerVars>>

NextDate == FormatDateFull

SpecDate == InitDate /\ [][NextDate]_vars

(***************************************************************************)
(* The whole program: any of the machines                                  *)
(***************************************************************************)
Init ==
    \/ InitNumeral
    \/ InitOrderNumber
    \/ InitDocument
    \/ InitColumnWidths
    \/ InitDate
    \/ InitApi
    \/ InitService

Next ==
    \/ NextNumeral
    \/ NextOrderNumber
    \/ NextColumnWidths
    \/ NextDate
    \/ NextApi
    \/ NewRequest
    \/ GenerateDocx

Spec == Init /\ [][Next]_vars

(***************************************************************************)
(* String predicates used to state the properties                          *)
(***************************************************************************)
StartsWith(s, prefix) ==
    Len(prefix) <= Len(s) /\ SubSeq(s, 1, Len(prefix)) = prefix

Contains(s, word) ==
    \E i \in 1..Len(s) :
        i + Len(word) - 1 <= Len(s) /\ SubSeq(s, i, i + Len(word) - 1) = word

\* non-empty, no leading, trailing or doubled space
SingleSpaced(s) ==
    /\ Len(s) > 0
    /\ Char(s, 1) # " "
    /\ Char(s, Len(s)) # " "
    /\ \A i \in 1..(Len(s) - 1) : ~(Char(s, i) = " " /\ Char(s, i + 1) = " ")

\* s up to and including its last space ("" when it has none)
UpToLastSpace(s) ==
    LET spaces == {i \in 1..Len(s) : Char(s, i) = " "}
    IN  IF spaces = {} THEN ""
        ELSE SubSeq(s, 1, CHOOSE i \in spaces : \A j \in spaces : j <= i)

\* s with its first letter upper-cased
FirstUpper(s) == IF Len(s) = 0 THEN "" ELSE UpperChar(Char(s, 1)) \o SubSeq(s, 2, Len(s))

\* the form of a three-form table that agrees with the count n
AgreeingForm(n, one, few, many) ==
    LET a == IF n < 0 THEN -n ELSE n
        lastTwo == a % 100
        lastDigit == a % 10
    IN  IF lastTwo \in 11..19 THEN many
        ELSE IF lastDigit \in {2, 3, 4} THEN few
        ELSE IF lastDigit = 1 THEN one
        ELSE many

(***************************************************************************)
(* C1: get_declension(n, F) is F[2] when 10 < |n| mod 100 < 20, otherwise  *)
(* F[1] when the last digit of |n| is 2, 3 or 4, otherwise F[0] when it is *)
(* 1, otherwise F[2]; select_form(1) = F[0], (2) = F[1], (5) = F[2],       *)
(* (11) = F[2], (21) = F[0], (25) = F[2].                                  *)
(***************************************************************************)
C1_Declension ==
    pc = "get_declension" =>
        /\ out = AgreeingForm(num, forms[1], forms[2], forms[3])
        /\ (num \in {1, 21, -1, -21, 101}) => out = forms[1]
        /\ (num \in {2, 3, 4, 22, -2}) => out = forms[2]
        /\ (num \in {5, 11, 12, 13, 14, 25, 0, -11, -14, 111, 112}) => out = forms[3]

C1_Witness ==
    /\ pc = "get_declension"
    /\ num = -12
    /\ forms = RUBLES
    /\ out = "rublej"

(***************************************************************************)
(* C2: for n in 1000..999999 the spelling starts with the feminine         *)
(* spelling of t = n div 1000 followed by the thousand word agreeing with  *)
(* t ('тысяча' / 'тысячи' / 'тысяч'); spell(1000) = 'одна тысяча',         *)
(* spell(2000) = 'две тысячи', spell(5000) = 'пять тысяч',                 *)
(* spell(100000) = 'сто тысяч'.                                            *)
(***************************************************************************)
C2_ThousandsAgree ==
    (pc = "spell_number_russian" /\ num >= 1000 /\ num <= 999999) =>
        LET t == num \div 1000
        IN  /\ StartsWith(out, spell_number_russian(t, TRUE) \o " "
                               \o AgreeingForm(t, "tysyacha", "tysyachi", "tysyach"))
            /\ (num = 1000) => out = "odna tysyacha"
            /\ (num = 2000) => out = "dve tysyachi"
            /\ (num = 5000) => out = "pyat tysyach"
            /\ (num = 100000) => out = "sto tysyach"

(***************************************************************************)
(* C3: for n >= 1000000 the spelling starts with the masculine spelling of *)
(* m = n div 1000000 followed by the million word agreeing with m          *)
(* ('миллион' / 'миллиона' / 'миллионов'), and the rest is the spelling of *)
(* n mod 1000000 (nothing when that is 0).                                 *)
(***************************************************************************)
C3_MillionsAgree ==
    (pc = "spell_number_russian" /\ num >= 1000000) =>
        LET m == num \div 1000000
            rest == num % 1000000
            head == spell_number_russian(m, FALSE) \o " "
                    \o AgreeingForm(m, "million", "milliona", "millionov")
        IN  /\ out = IF rest = 0 THEN head
                     ELSE head \o " " \o spell_number_russian(rest, feminine)
            /\ (num = 1000000) => out = "odin million"
            /\ (num = 2000000) => out = "dva milliona"
            /\ (num = 5000000) => out = "pyat millionov"

(***************************************************************************)
(* C4: for n in 0..999 the (masculine) spelling is the reference spelling: *)
(* 'ноль' exactly when n = 0; otherwise the hundreds word (if any), then   *)
(* the teen word when n mod 100 is in 10..19, or else the tens word (if    *)
(* any) and the ones word (if any).  'ноль' appears in no spelling of an   *)
(* n >= 1, and spell(21) = 'двадцать один'.                                *)
(***************************************************************************)
ReferenceSpelling(n) ==
    LET h == n \div 100
        tu == n % 100
        hundredsWord == IF h >= 1 THEN <<HUNDREDS[h + 1]>> ELSE <<>>
        tailWords == IF tu \in 10..19 THEN <<TEENS[tu - 9]>>
                     ELSE (IF tu >= 20 THEN <<TENS[(tu \div 10) + 1]>> ELSE <<>>)
                          \o (IF tu % 10 >= 1 THEN <<ONES[(tu % 10) + 1]>> ELSE <<>>)
    IN  IF n = 0 THEN "nol" ELSE Join(hundredsWord \o tailWords)

C4_SmallNumbers ==
    pc = "spell_number_russian" =>
        /\ (~feminine /\ num \in 0..999) => out = ReferenceSpelling(num)
        /\ (num \in 0..999) => (out = "nol" <=> num = 0)
        /\ (num >= 1) => ~Contains(out, "nol")
        /\ (~feminine /\ num = 21) => out = "dvadtsat odin"

C4_Witness ==
    /\ pc = "spell_number_russian"
    /\ ~feminine
    /\ num = 919
    /\ out = "devyatsot devyatnadtsat"

(***************************************************************************)
(* C5: for every n >= 0 and either gender the spelling is a non-empty      *)
(* sequence of non-empty words joined by exactly one space: no leading     *)
(* space, no trailing space, no two consecutive spaces.                    *)
(***************************************************************************)
C5_SingleSpaced ==
    (pc = "spell_number_russian" /\ num >= 0) => SingleSpaced(out)

(***************************************************************************)
(* C6: for every amount >= 0, spell_money_russian(amount) is the masculine *)
(* spelling of the amount rounded to the nearest whole ruble, its first    *)
(* letter capitalised, one space, the ruble form get_declension chooses    *)
(* for that integer, and nothing after it; spell_money(1) = 'Один рубль',  *)
(* (21) = 'Двадцать один рубль', (200) = 'Двести рублей'.                  *)
(***************************************************************************)
C6_MoneySpelling ==
    (pc = "spell_money_russian" /\ amount.units >= 0) =>
        /\ \E r \in {amount.units, amount.units + 1} :
              \* r is a whole number nearest to the amount
              /\ (r = amount.units) => 2 * amount.frac <= amount.den
              /\ (r = amount.units + 1) => 2 * amount.frac >= amount.den
              /\ out = FirstUpper(spell_number_russian(r, FALSE)) \o " "
                       \o get_declension(r, RUBLES)
        /\ (amount = Amount(1, 0)) => out = "Odin rubl"
        /\ (amount = Amount(21, 0)) => out = "Dvadtsat odin rubl"
        /\ (amount = Amount(200, 0)) => out = "Dvesti rublej"
        /\ (amount = Amount(1, 501)) => out = "Dva rublya"
        /\ (amount = Amount(4, 499)) => out = "Chetyre rublya"

C6_Witness ==
    /\ pc = "spell_money_russian"
    /\ amount = Amount(20, 501)
    /\ out = "Dvadtsat odin rubl"

(***************************************************************************)
(* C7: for every day count d >= 0, spell_workdays_russian(d) is the        *)
(* masculine spelling of d, its first letter capitalised, one space, and   *)
(* the form get_declension(d, WORKDAYS) chooses: 1 -> 'Один рабочий день', *)
(* 2 -> 'Два рабочих дня', 5 -> 'Пять рабочих дней',                       *)
(* 11 -> 'Одиннадцать рабочих дней', 21 -> 'Двадцать один рабочий день'.   *)
(***************************************************************************)
C7_WorkdaysSpelling ==
    (pc = "spell_workdays_russian" /\ num >= 0) =>
        /\ out = FirstUpper(spell_number_russian(num, FALSE)) \o " "
                 \o get_declension(num, WORKDAYS)
        /\ (num = 1) => out = "Odin rabochij den"
        /\ (num = 2) => out = "Dva rabochih dnya"
        /\ (num = 5) => out = "Pyat rabochih dnej"
        /\ (num = 11) => out = "Odinnadtsat rabochih dnej"
        /\ (num = 21) => out = "Dvadtsat odin rabochij den"

C7_Witness ==
    /\ pc = "spell_workdays_russian"
    /\ num = 21
    /\ out = "Dvadtsat odin rabochij den"

(***************************************************************************)
(* C8: the gender parameter affects only the final ones digit: for n >= 0, *)
(* spell(n, feminine) and spell(n, masculine) are equal except possibly in *)
(* their last token, and differ iff n mod 10 is 1 or 2 and n mod 100 is    *)
(* not 11 or 12; the words for the thousands count (always feminine) and   *)
(* the millions count (always masculine) do not depend on the parameter.   *)
(***************************************************************************)
C8_GenderOnlyLastToken ==
    (pc = "spell_number_russian" /\ num >= 0) =>
        LET other == spell_number_russian(num, ~feminine)
        IN  /\ UpToLastSpace(out) = UpToLastSpace(other)
            /\ (out # other) <=> (num % 10 \in {1, 2} /\ num % 100 \notin {11, 12})
            /\ (num >= 1000 /\ num <= 999999) =>
                   StartsWith(out, spell_number_russian(num \div 1000, TRUE) \o " ")
            /\ (num >= 1000000) =>
                   StartsWith(out, spell_number_russian(num \div 1000000, FALSE) \o " ")

C8_Witness ==
    /\ pc = "spell_number_russian"
    /\ feminine
    /\ num = 21002
    /\ out = "dvadtsat odna  dve"

(***************************************************************************)
(* C9: extract_order_number(s) is the digits of the substring after the    *)
(* last '-' when s contains '-' and that substring holds a digit;          *)
(* otherwise all digits of s when s holds any digit; otherwise s itself.   *)
(* 'order-27193' -> '27193', 'KP-2025-193' -> '193',                       *)
(* 'noDigitsHere' -> 'noDigitsHere'.                                       *)
(***************************************************************************)
\* the digits of s[from..Len(s)], collected from the right
RECURSIVE DigitsFrom(_, _, _)
DigitsFrom(s, from, upto) ==
    IF upto < from THEN ""
    ELSE DigitsFrom(s, from, upto - 1)
         \o (IF Char(s, upto) \in {"0", "1", "2", "3", "4", "5", "6", "7", "8", "9"}
             THEN Char(s, upto) ELSE "")

C9_OrderNumber ==
    pc = "extract_order_number" =>
        LET s == order_id
            hyphens == {i \in 1..Len(s) : Char(s, i) = "-"}
            lastHyphen == CHOOSE i \in hyphens : \A j \in hyphens : j <= i
            tailDigits == IF hyphens = {} THEN "" ELSE DigitsFrom(s, lastHyphen + 1, Len(s))
            allDigits == DigitsFrom(s, 1, Len(s))
        IN  /\ out = IF tailDigits # "" THEN tailDigits
                     ELSE IF allDigits # "" THEN allDigits
                     ELSE s
            /\ (s = "order-27193") => out = "27193"
            /\ (s = "KP-2025-193") => out = "193"
            /\ (s = "noDigitsHere") => out = "noDigitsHere"

C9_Witness ==
    /\ pc = "extract_order_number"
    /\ order_id = "KP-2025-193"
    /\ out = "193"

(***************************************************************************)
(* C10: in every generated document with at least one line item, the       *)
(* value displayed and spelled in the summary line ('Стоимость ...         *)
(* составляет: ...') equals the sum of the line items' lineTotal values,   *)
(* the value shown in the 'Итого:' row.                                    *)
(***************************************************************************)
\* the row or paragraph of the given kind in the document
ItemOfKind(kind) == doc[CHOOSE i \in 1..Len(doc) : doc[i].kind = kind]

C10_SummaryIsSumOfItems ==
    (pc \in {"add_work_description", "add_footer_section"} /\ data.jobs # <<>>) =>
        LET lineTotals == [i \in 1..Len(data.jobs) |->
                               ParseFloat(Get(data.jobs[i].lineTotal, "0.00"))]
            cost == ItemOfKind("cost")
            subtotal == ItemOfKind("subtotal")
        IN  /\ cost.cells[2] = subtotal.cells[5] \o " rub."
            /\ IsRussian(Locale) =>
                   cost.cells[3] = " (" \o spell_money_russian(SumFloats(lineTotals))
                                   \o ") Bez NDS."

(***************************************************************************)
(* C11: for every line item whose qty is given, the unit price shown in    *)
(* its row is lineTotal / qty (rounded to a whole number for display) when *)
(* qty > 0 and 0 when qty <= 0; the payload's unitPrice is never shown in  *)
(* its place, and a line item with qty = 0 still gets its row and the      *)
(* document is built to its end.                                           *)
(***************************************************************************)
\* a decimal text 'd.dd' (or '-d', 'd') in hundredths
Hundredths(text) ==
    LET negative == Char(text, 1) = "-"
        body == IF negative THEN SubSeq(text, 2, Len(text)) ELSE text
        dots == {i \in 1..Len(body) : Char(body, i) = "."}
        dot == IF dots = {} THEN Len(body) + 1 ELSE CHOOSE i \in dots : TRUE
        whole == DigitsFrom(body, 1, dot - 1)
        cents == DigitsFrom(body, dot + 1, Len(body)) \o "00"
        value == ParseInt(whole) * 100 + ParseInt(SubSeq(cents, 1, 2))
    IN  IF negative THEN -value ELSE value

\* the job rows of the document, in order
RowsOfKind(kind) == SelectSeq(doc, LAMBDA item : item.kind = kind)

WidthSum == out[1] + out[2] + out[3] + out[4] + out[5]

\* the remainder was below the minimum, so the minimum replaced it
NameColumnClamped == width_in - 84 < 50

C12_WidthSum ==
    pc = "calculate_column_widths" =>
        /\ out = <<10, IF width_in - 84 > 50 THEN width_in - 84 ELSE 50, 20, 27, 27>>
        /\ ~NameColumnClamped => WidthSum = width_in
        /\ WidthSum >= width_in <=> NameColumnClamped

\* C12 as amended: the sum exceeds W if and only if the name column was
\* clamped, and equals W otherwise
C12_WidthSumAmended ==
    pc = "calculate_column_widths" =>
        /\ out = <<10, IF width_in - 84 > 50 THEN width_in - 84 ELSE 50, 20, 27, 27>>
        /\ ~NameColumnClamped => WidthSum = width_in
        /\ WidthSum > width_in <=> NameColumnClamped

C12_Witness ==
    /\ pc = "calculate_column_widths"
    /\ width_in = 100
    /\ out = <<10, 50, 20, 27, 27>>

(***************************************************************************)
(* C13: for every payload in a Russian locale and every document type,     *)
(* also when the jobs list is empty or missing, the finished document      *)
(* holds these sections in this order, none skipped except the optional    *)
(* title: company header, document header, line-item table, monetary       *)
(* summary line, deadline / delivery note, signature footer.               *)
(***************************************************************************)
\* the position of the first item of one of the kinds, 0 when there is none
FirstOfKinds(kinds) ==
    IF \E i \in 1..Len(doc) : doc[i].kind \in kinds
    THEN CHOOSE i \in 1..Len(doc) :
             doc[i].kind \in kinds /\ \A j \in 1..(i - 1) : doc[j].kind \notin kinds
    ELSE 0

C13_SectionOrder ==
    (pc = "add_footer_section" /\ IsRussian(Locale)) =>
        LET company == FirstOfKinds({"legal_form"})
            header == FirstOfKinds({"doc_number"})
            table == FirstOfKinds({"jobs_header"})
            summary == FirstOfKinds({"cost"})
            deadline == FirstOfKinds({"deadline"})
            footer == FirstOfKinds({"signatures", "director_contacts"})
        IN  /\ 0 < company
            /\ company < header
            /\ header < table
            /\ table < summary
            /\ summary < deadline
            /\ deadline < footer

(***************************************************************************)
(* C14: in api/generate.py the document type alone selects the label of    *)
(* the document-number line and the deadline wording: 'invoice' gives      *)
(* 'Смета №' with the work-completion sentence, 'specification' gives      *)
(* 'Спецификация №' with the delivery sentence ('Срок поставки'), a        *)
(* purchase order gives 'КП №' with the work-completion sentence; the      *)
(* three labels are pairwise distinct, and any other type value (a missing *)
(* type included, which defaults to 'po') is treated as a purchase order.  *)
(***************************************************************************)
C14_Labels == {"Smeta No", "Spetsifikatsiya No", "KP No"}

\* the label the type stands for
C14_Label(type) ==
    CASE type = "invoice" -> "Smeta No"
      [] type = "specification" -> "Spetsifikatsiya No"
      [] OTHER -> "KP No"

FooterItems == SelectSeq(doc, LAMBDA item : item.section = "footer")

\* the tables among them
FooterTables == SelectSeq(FooterItems, LAMBDA item : item.kind # "blank")

NoFragment(kind, fragment) ==
    \A i \in 1..Len(doc) :
        doc[i].kind = kind =>
            \A j \in 1..Len(doc[i].cells) : ~Contains(doc[i].cells[j], fragment)

\* the document has no item of the kind
NoItem(kind) == \A i \in 1..Len(doc) : doc[i].kind # kind

C16_CompanyFieldsSuppressed ==
    pc = "add_footer_section" =>
        LET company == data.company
        IN  /\ company.name = "" => NoItem("company_name")
            /\ company.address = "" => NoItem("address")
            /\ (company.bankName = "" /\ company.bankAccount = ""
                /\ company.correspondentAccount = "" /\ company.bankBik = "")
                   => NoItem("bank")
            /\ company.bankAccount = "" => NoFragment("bank", "r/s")
            /\ company.correspondentAccount = "" => NoFragment("bank", "k/s")
            /\ company.bankBik = "" => NoFragment("bank", "BIK")
            /\ (company.inn = "" /\ company.kpp = "") => NoItem("inn_kpp")
            /\ company.inn = "" => NoFragment("inn_kpp", "INN")
            /\ company.kpp = "" => NoFragment("inn_kpp", "KPP")
            /\ company.directorName = ""
                   => NoFragment("director_contacts", "Tehnicheskij direktor")
            /\ company.email = "" => NoFragment("director_contacts", "Email:")
            /\ company.phone = "" => NoFragment("director_contacts", "Tel:")

C16_ClientFieldsSuppressed ==
    (pc = "add_footer_section" /\ data.client.company = "" /\ data.client.name = "")
        => NoItem("client")

C16_OptionalFieldsSuppressed ==
    C16_CompanyFieldsSuppressed /\ C16_ClientFieldsSuppressed

(***************************************************************************)
(* C17: for every numeric value, format_number_russian groups the integer  *)
(* part from the right: each space in the output stands between two digits *)
(* and is followed by a group of exactly three digits, and removing the    *)
(* spaces gives the plain decimal representation.  In whole-number mode    *)
(* (api) the output is the value rounded to an integer with no fractional  *)
(* suffix; in decimal mode (python-service) the output always ends with a  *)
(* comma followed by exactly two digits.                                   *)
(***************************************************************************)
\* every space of s stands between two digits and is followed by exactly
\* three digits, and no group is longer than three digits
GroupedByThree(s) ==
    /\ \A i \in 1..Len(s) :
          Char(s, i) = " " =>
              /\ i > 1 /\ IsDigit(Char(s, i - 1))
              /\ i + 3 <= Len(s)
              /\ \A j \in (i + 1)..(i + 3) : IsDigit(Char(s, j))
              /\ i + 3 = Len(s) \/ Char(s, i + 4) = " "
    /\ \A i \in 1..(Len(s) - 3) : \E j \in i..(i + 3) : ~IsDigit(Char(s, j))

RECURSIVE RemoveSpaces(_)
RemoveSpaces(s) ==
    IF Len(s) = 0 THEN ""
    ELSE (IF Char(s, 1) = " " THEN "" ELSE Char(s, 1)) \o RemoveSpaces(SubSeq(s, 2, Len(s)))

\* the whole number nearest to the amount (the even one of two)
NearestWhole ==
    IF 2 * amount.frac < amount.den \/ (2 * amount.frac = amount.den /\ amount.units % 2 = 0)
    THEN amount.units ELSE amount.units + 1

C17_WholeMode ==
    pc = "format_number_russian" =>
        /\ GroupedByThree(out)
        /\ RemoveSpaces(out) = (IF NearestWhole < 0 THEN "-" ELSE "")
                                \o NatToStr(IF NearestWhole < 0 THEN -NearestWhole
                                            ELSE NearestWhole)
        /\ ~Contains(out, ",") /\ ~Contains(out, ".")

C17_DecimalMode ==
    pc = "format_number_russian_decimal" =>
        /\ Len(out) >= 4
        /\ Char(out, Len(out) - 2) = ","
        /\ IsDigit(Char(out, Len(out) - 1)) /\ IsDigit(Char(out, Len(out)))
        /\ GroupedByThree(SubSeq(out, 1, Len(out) - 3))
        /\ ~Contains(SubSeq(out, 1, Len(out) - 3), ",")
        /\ amount.units >= 0 =>
               \* the digits shown are the amount rounded to hundredths
               LET whole == ParseInt(DigitsFrom(out, 1, Len(out) - 3))
                   hundredths == ParseInt(SubSeq(out, Len(out) - 1, Len(out)))
                   shown == (whole - amount.units) * 100 * amount.den
                            + hundredths * amount.den
               IN  /\ whole - amount.units \in {0, 1}
                   /\ 2 * (shown - amount.frac * 100) <= amount.den
                   /\ 2 * (amount.frac * 100 - shown) <= amount.den

C17_GroupedDisplay == C17_WholeMode /\ C17_DecimalMode

(***************************************************************************)
(* C18: format_date_full_russian never raises to its caller: for an input  *)
(* it can parse it returns '<day> <Russian genitive month name> <year> г.' *)
(* with the month name of the parsed month 1..12, and for every input it   *)
(* cannot parse (wrong format, impossible date, non-string) it returns the *)
(* input value unchanged.                                                  *)
(***************************************************************************)
\* the decimal texts that denote the number n in at most width characters
NumberTexts(n, width) ==
    {t \in {NatToStr(n), "0" \o NatToStr(n), "00" \o NatToStr(n), "000" \o NatToStr(n)} :
         Len(t) <= width}

\* the calendar has the day
CalendarDay(y, m, d) ==
    /\ y >= 1 /\ m \in 1..12 /\ d >= 1
    /\ d <= (IF m \in {4, 6, 9, 11} THEN 30
             ELSE IF m # 2 THEN 31
             ELSE IF (y % 4 = 0 /\ y % 100 # 0) \/ y % 400 = 0 THEN 29 ELSE 28)

\* the text is year-month-day, or '<month abbreviation> day, year', of the date
Denotes(text, y, m, d) ==
    LET yt == ZeroPad(NatToStr(y), 4)
    IN  /\ Len(text) >= 8
        /\ \/ /\ SubSeq(text, 1, 5) = yt \o "-"
              /\ \E mt \in NumberTexts(m, 2), dt \in NumberTexts(d, 2) :
                     text = yt \o "-" \o mt \o "-" \o dt
           \/ /\ SubSeq(text, Len(text) - 5, Len(text)) = ", " \o yt
              /\ LowerStr(SubSeq(text, 1, 3)) = MonthAbbreviations[m]
              /\ \E dt \in NumberTexts(d, 2) : text = SubSeq(text, 1, 3) \o " " \o dt \o ", " \o yt

C18_Years == {0, 1, 99, 1900, 2024, 2025}

\* the years whose four digits begin or end the text
YearsIn(text) ==
    {y \in C18_Years :
         /\ Len(text) >= 8
         /\ ZeroPad(NatToStr(y), 4) \in {SubSeq(text, 1, 4), SubSeq(text, Len(text) - 3, Len(text))}}

C18_DateFallback ==
    pc = "format_date_full_russian" =>
        LET dates == IF date_in.type # "str" THEN {}
                     ELSE {ymd \in YearsIn(date_in.value) \X (1..12) \X (1..31) :
                               /\ CalendarDay(ymd[1], ymd[2], ymd[3])
                               /\ Denotes(date_in.value, ymd[1], ymd[2], ymd[3])}
        IN  /\ dates = {} => out = date_in
            /\ \A ymd \in dates :
                   out = Str(NatToStr(ymd[3]) \o " " \o MONTHS_RU[ymd[2] + 1] \o " "
                             \o NatToStr(ymd[1]) \o " g.")
            /\ date_in = Str("2025-01-15") => out = Str("15 yanvarya 2025 g.")
            /\ date_in = Str("DEC 31, 2025") => out = Str("31 dekabrya 2025 g.")
            /\ date_in = Str("2024-02-29") => out = Str("29 fevralya 2024 g.")
            /\ date_in = Str("2025-02-29") => out = date_in
            /\ date_in = Str("2025-01-15 10:30") => out = date_in

C18_Witness ==
    /\ pc = "format_date_full_russian"
    /\ date_in = Str("2025-02-30")
    /\ out = Str("2025-02-30")

(***************************************************************************)
(* C19: every POST whose Authorization header is missing, does not start   *)
(* with 'Bearer ', or carries a token that fails verification is answered  *)
(* with status 401, and for such a request the body is never read or       *)
(* parsed and generate_document is never invoked; authentication is        *)
(* decided before any other processing of the request.                     *)
(***************************************************************************)
\* the steps do_POST has made
StepsMade == {log[i] : i \in 1..Len(log)}

\* the steps that process the request's body
BodySteps == {"rfile.read", "json.loads", "generate_document"}

\* the header is missing or does not start with 'Bearer '
NoBearerToken ==
    \/ request.Authorization = <<>>
    \/ ~StartsWith(request.Authorization[1], "Bearer ")

\* the token was handed to verify_supabase_token and no user came back
VerificationFailed == "verify_supabase_token" \in StepsMade /\ ~Truthy(user)

C19_AuthenticationFirst ==
    /\ (NoBearerToken \/ VerificationFailed) =>
           /\ StepsMade \cap BodySteps = {}
           /\ doc = <<>>
           /\ \A i \in 1..Len(responses) : responses[i].status = 401
           /\ pc = "done" => Len(responses) = 1
    /\ StepsMade \cap BodySteps # {} =>
           /\ log[1] = "verify_supabase_token"
           /\ Truthy(user)
    /\ doc # <<>> => "generate_document" \in StepsMade

C19_Witness ==
    /\ pc = "done"
    /\ request.Authorization = <<"Bearer abc">>
    /\ request.body.json
    /\ answer.status = 401
    /\ log = <<"verify_supabase_token">>
    /\ responses = <<ErrorResponse(401, "Unauthorized: Invalid or expired token")>>

(***************************************************************************)
(* C20: token verification is fail-closed in every environment:            *)
(* verify_supabase_token returns a user (and so a document can be          *)
(* generated) only when the auth provider answered the verification        *)
(* request with status 200; a timeout, network error, non-200 answer,      *)
(* unparseable answer or missing provider configuration (URL or key not    *)
(* set) all make it return None, so the POST gets 401.                     *)
(***************************************************************************)
\* the provider was called and answered with status 200
ProviderAnswered200 == answer # NotAsked /\ answer.raised = "" /\ answer.status = 200

\* the URL or the key of the provider is not set
ConfigurationMissing ==
    environ.VITE_SUPABASE_URL = "" \/ environ.VITE_SUPABASE_ANON_KEY = ""

C20_FailClosed ==
    "verify_supabase_token" \in StepsMade =>
        /\ user # None => ProviderAnswered200
        /\ "generate_document" \in StepsMade => ProviderAnswered200
        /\ (\/ ConfigurationMissing
            \/ answer.raised # ""
            \/ answer.status # 200
            \/ ~JsonUser(answer.body).ok) =>
               /\ user = None
               /\ pc = "done"
               /\ responses = <<ErrorResponse(401, "Unauthorized: Invalid or expired token")>>

(***************************************************************************)
(* C21: an authenticated POST whose input is malformed is answered with    *)
(* status 400 and a JSON body {"error": message}: an empty body, a body    *)
(* that is no parseable JSON, and a parseable body that lacks the required *)
(* structure (a top-level value that is no object, a lineTotal, qty or     *)
(* total that is no number); status 500 is used only for failures while    *)
(* rendering well-formed input.                                            *)
(***************************************************************************)
\* the token was verified and the handler went on to the body
Authenticated == Truthy(user) /\ user.type = "dict"

\* the Content-Length header is missing or says 0
EmptyBody == Get(request.body.content_length, "0") = "0"

\* the body is there and is no JSON text
UnparseableBody ==
    /\ ~EmptyBody
    /\ IsDigits(request.body.content_length[1])
    /\ ~request.body.json

\* the body is a JSON text without the required structure
LacksStructure ==
    /\ request.body.json
    /\ \/ ~request.body.object
       \/ LET payload == request.body.payload
          IN  \/ \E i \in 1..Len(payload.jobs) :
                     \/ ~IsFloatText(Get(payload.jobs[i].lineTotal, "0.00"))
                     \/ ~IsFloatText(Get(payload.jobs[i].qty, "1"))
              \/ ~IsFloatText(Get(payload.order.total, "0.00"))

MalformedInput == EmptyBody \/ UnparseableBody \/ LacksStructure

C21_MalformedInputIs400 ==
    (pc = "done" /\ Authenticated) =>
        /\ MalformedInput =>
               /\ Len(responses) = 1
               /\ responses[1].status = 400
               /\ responses[1].headers[1] = <<"Content-Type", "application/json">>
        /\ \A i \in 1..Len(responses) : responses[i].status = 500 => ~MalformedInput

(***************************************************************************)
(* C22: a request whose path does not end in '/generate' is answered with  *)
(* 404 for every method, so a POST to an unknown path never generates a    *)
(* document; a GET whose path ends in '/generate' is answered with 200     *)
(* and the JSON {"status": "healthy"} without requiring authentication.    *)
(***************************************************************************)
KnownPath == EndsWith(request.path, "/generate")

C22_Routing ==
    pc = "done" =>
        /\ ~KnownPath =>
               /\ Len(responses) = 1
               /\ responses[1].status = 404
               /\ doc = <<>>
               /\ served = <<>>
        /\ (KnownPath /\ request.method = "GET") =>
               /\ Len(responses) = 1
               /\ responses[1].status = 200
               /\ responses[1].body = "{\"status\": \"healthy\"}"

(***************************************************************************)
(* C23: every POST results in exactly one HTTP response (one status line   *)
(* and one header block), with status 200, 400, 401 or 500: no execution   *)
(* path sends no response and none sends two; a failure after the 200      *)
(* status and headers were sent does not cause an additional error         *)
(* response to be written.                                                 *)
(***************************************************************************)
\* the positions of do_POST from which it goes on
PostSteps ==
    {"do_POST", "verify_supabase_token", "read_body", "json.loads", "generate_document",
     "add_company_header", "add_document_header", "add_work_description",
     "add_footer_section", "except Exception"}

C23_ExactlyOneResponse ==
    /\ pc = "done" =>
           /\ Len(responses) = 1
           /\ responses[1].status \in {200, 400, 401, 500}
    /\ pc # "done" =>
           /\ responses = <<>>
           /\ pc \in PostSteps

(***************************************************************************)
(* C24: every successful generation response has content-type             *)
(* application/vnd.openxmlformats-officedocument.wordprocessingml.document *)
(* and an attachment filename of the form P-D.docx, where P is the         *)
(* payload's documentPrefix when given and the document type otherwise,    *)
(* and D consists only of the digits extracted from order.id; this holds   *)
(* for the api handler and for the python-service endpoint.                *)
(***************************************************************************)
\* the values a response gives the header name
HeaderValues(response, name) ==
    {response.headers[i][2] :
         i \in {j \in 1..Len(response.headers) : response.headers[j][1] = name}}

\* the filename the claim describes for the request
C24_Filename ==
    LET P == Get(request.body.documentPrefix, Get(request.body.type, "po"))
        D == DigitsOnly(Get(request.body.payload.order.id, ""))
    IN  P \o "-" \o D \o ".docx"

\* the response carries a document
IsDocument(response) == response.status = 200 /\ response.body = "docx"

C24_Attachment ==
    \A i \in 1..Len(responses) :
        IsDocument(responses[i]) =>
            /\ HeaderValues(responses[i], "Content-Type") = {DocxType}
            /\ \/ HeaderValues(responses[i], "Content-Disposition")
                      = {"attachment; filename=\"" \o C24_Filename \o "\""}
               \/ HeaderValues(responses[i], "Content-Disposition")
                      = {"attachment; filename=" \o C24_Filename}

(***************************************************************************)
(* C25: a response of the api handler (200, error or OPTIONS preflight)    *)
(* carries the Access-Control-Allow-Origin/-Methods/-Headers/-Credentials  *)
(* headers if and only if the request's Origin header, after removing      *)
(* trailing slashes, equals a configured allowed origin; a request with no *)
(* Origin or a non-configured Origin never receives them, and the          *)
(* localhost origins are allowed only when VERCEL_ENV is not 'production'. *)
(***************************************************************************)
CorsNames ==
    {"Access-Control-Allow-Origin", "Access-Control-Allow-Methods",
     "Access-Control-Allow-Headers", "Access-Control-Allow-Credentials"}

\* the names of the headers of a response
HeaderNames(response) == {response.headers[i][1] : i \in 1..Len(response.headers)}

\* the origins the configuration allows under the environment of the request
ConfiguredOrigins ==
    {PRODUCTION_DOMAIN}
    \cup (IF environ.VERCEL_ENV # "production"
          THEN {"http://localhost:3000", "http://localhost:5173",
                "http://127.0.0.1:3000", "http://127.0.0.1:5173"}
          ELSE {})

OriginConfigured ==
    /\ request.Origin # <<>>
    /\ RStripSlash(request.Origin[1]) \in ConfiguredOrigins

C25_CorsOnlyForConfiguredOrigins ==
    \A i \in 1..Len(responses) :
        IF OriginConfigured
        THEN /\ CorsNames \subseteq HeaderNames(responses[i])
             /\ HeaderValues(responses[i], "Access-Control-Allow-Origin")
                    = {request.Origin[1]}
        ELSE CorsNames \cap HeaderNames(responses[i]) = {}

C25_Witness ==
    /\ pc = "done"
    /\ request.method = "OPTIONS"
    /\ request.Origin = <<PRODUCTION_DOMAIN \o "//">>
    /\ environ.VERCEL_ENV = "production"
    /\ Len(responses) = 1
    /\ responses[1].status = 200
    /\ CorsNames \subseteq HeaderNames(responses[1])

(***************************************************************************)
(* C29: for every order identifier, the number in the download filename of *)
(* the api handler equals the document number printed on the               *)
(* document-number line of the same document: both are                     *)
(* extract_order_number(order.id); for 'KP-2025-193' both are '193'.       *)
(***************************************************************************)
C29_FilenameNumberIsDocumentNumber ==
    (pc = "done" /\ \E i \in 1..Len(responses) : IsDocument(responses[i])) =>
        LET number == extract_order_number(Get(data.order.id, ""))
            prefix == Get(request.body.documentPrefix, doc_type)
            sent == CHOOSE r \in {responses[i] : i \in 1..Len(responses)} : IsDocument(r)
        IN  /\ ItemOfKind("doc_number").cells[1] = DocLabel(doc_type) \o " " \o number
            /\ HeaderValues(sent, "Content-Disposition")
                   = {"attachment; filename=\"" \o prefix \o "-" \o number \o ".docx\""}
            /\ data.order.id = <<"KP-2025-193">> => number = "193"

(***************************************************************************)
(* C27: the speller's precondition is enforced before it is called:        *)
(* spell_number_russian is never invoked with a negative magnitude during  *)
(* document generation, so a payload whose order total or                  *)
(* workCompletionDays is negative is rejected with an error instead of     *)
(* producing a document whose spelled amount or day count is empty.        *)
(***************************************************************************)
\* the payload handed to generate_document has a negative total or day count
NegativeMagnitude ==
    \/ /\ IsFloatText(Get(data.order.total, "0.00"))
       /\ ParseFloat(Get(data.order.total, "0.00")).units < 0
    \/ Get(data.workCompletionDays, 30) < 0

\* the paragraphs of the document that hold a spelled number
SpelledItems == {i \in 1..Len(doc) : doc[i].kind \in {"cost", "deadline"}}

C27_PreconditionEnforced ==
    ("generate_document" \in StepsMade /\ NegativeMagnitude) =>
        /\ SpelledItems = {}
        /\ \A i \in 1..Len(responses) : responses[i].status \in {400, 500}
        /\ pc = "done" => Len(responses) = 1

(***************************************************************************)
(* C28: in the fractional variant (python-service), for every non-negative *)
(* amount, spell_money_russian spells a ruble count r and a kopeck count k *)
(* with 0 <= k <= 99 such that r * 100 + k equals the amount rounded to    *)
(* hundredths, the value format_number_russian displays next to it; k is   *)
(* spelled in the feminine gender with the kopeck form agreeing with k,    *)
(* and k = 0 is rendered as '00 kopeek'.                                   *)
(***************************************************************************)
\* the fraction of the amount in hundredths, rounded to the nearest: 0..100
FractionCents(a) ==
    RoundToInt([units |-> (a.frac * 100) \div a.den, frac |-> (a.frac * 100) % a.den,
                den |-> a.den])

C28_KopecksCompleteTheAmount ==
    (pc = "spell_money_russian_fractional" /\ num >= 0) =>
        LET r == amount.units + FractionCents(amount) \div 100
            k == FractionCents(amount) % 100
        IN  /\ out = Capitalize(spell_number_russian(r, FALSE)) \o " "
                     \o AgreeingForm(r, "rubl", "rublya", "rublej")
                     \o (IF k = 0 THEN " 00 kopeek"
                         ELSE " " \o spell_number_russian(k, TRUE) \o " "
                              \o AgreeingForm(k, "kopejka", "kopejki", "kopeek"))
            /\ RemoveSpaces(format_number_russian_decimal(amount))
                   = NatToStr(r) \o "," \o ZeroPad(NatToStr(k), 2)

(***************************************************************************)
(* C30: for every non-negative integer n and either gender,                *)
(* spell_number_russian(n) terminates: every recursive call (for the       *)
(* millions count and for the thousands count) is made on an argument that *)
(* is at least 1 and strictly smaller than the caller's n, and no call     *)
(* modifies state visible to another call.                                 *)
(***************************************************************************)
\* the arguments of every activation of spell_number_russian under the call on n
RECURSIVE Activations(_)
Activations(n) == {n} \cup UNION {Activations(c.num) : c \in RecursiveCalls(n)}

C30_RecursionDescends ==
    (pc = "spell_number_russian" /\ num >= 0) =>
        /\ out = spell_number_russian(num, feminine)
        /\ \A n \in Activations(num) :
               \A c \in RecursiveCalls(n) :
                   /\ 1 <= c.num
                   /\ c.num < n
                   /\ Contains(out, spell_number_russian(c.num, c.feminine))

C30_Witness ==
    /\ pc = "spell_number_russian"
    /\ num = 101005012
    /\ RecursiveCalls(num) = {[num |-> 101, feminine |-> FALSE], [num |-> 5, feminine |-> TRUE]}
    /\ out # ""

(***************************************************************************)
(* C26: the content generated for a request is a function of that          *)
(* request's payload and the current date only: generating twice from the  *)
(* same payload on the same date gives identical content, whatever other   *)
(* requests were processed before or in between, because no operation      *)
(* changes any module-level state (the word-form tables, MONTHS_RU,        *)
(* ALLOWED_ORIGINS) after load.                                            *)
(***************************************************************************)
\* two generations had the same payload (the type is a field of it) and date
SameInput(a, b) == a.data = b.data /\ a.doc_type = b.doc_type /\ a.today = b.today

====
